---- MODULE Spec2Model ----
\* The NFQueue dispatcher of packetd (services/dispatch/nfqueue.go): session
\* resolution, ctid-reuse reconciliation, the priority-tiered plugin fan-out
\* with its watchdog, and the bypass protocol with the kernel ruleset.
EXTENDS Integers, Sequences, FiniteSets, TLC

\* ------------------------------------------------------------------ bounds
MaxCtid == 2
NumWorkers == 2
MaxEvents == 2

Ctids == 1..MaxCtid
Workers == 1..NumWorkers

\* ------------------------------------------------------- program constants
NfDrop == 0
NfAccept == 1
HalfWord == 65536
NewFlowBit == 4096
BypassBit == 32768
IfaceTypeUnit == 256
IfaceIDSpan == 256
IfaceTypeSpan == 4
MaxPriority == 100
ProtoTCP == 6
ProtoUDP == 17
AfInet == 2
AfInet6 == 10

\* --------------------------------------------------------------- addresses
\* Addresses are written as text; Octets gives the bytes of the net.IP value,
\* 4 bytes for IPv4 and 16 bytes for IPv6.
NoIP == <<>>
IPv6loopback == <<0, 0, 0, 0, 0, 0, 0, 0, 0, 0, 0, 0, 0, 0, 0, 1>>

Octets(a) ==
  CASE a = "10.0.0.5" -> <<10, 0, 0, 5>>
    [] a = "93.184.216.34" -> <<93, 184, 216, 34>>
    [] a = "127.0.0.1" -> <<127, 0, 0, 1>>
    [] a = "192.0.2.1" -> <<192, 0, 2, 1>>
    [] a = "2001:db8::5" -> <<32, 1, 13, 184, 0, 0, 0, 0, 0, 0, 0, 0, 0, 0, 0, 5>>
    [] a = "2001:db8::1" -> <<32, 1, 13, 184, 0, 0, 0, 0, 0, 0, 0, 0, 0, 0, 0, 1>>
    [] a = "::1" -> IPv6loopback
    [] a = "172.16.0.9" -> <<172, 16, 0, 9>>
    [] a = "172.32.0.9" -> <<172, 32, 0, 9>>
    [] a = "fe80::1" -> <<254, 128, 0, 0, 0, 0, 0, 0, 0, 0, 0, 0, 0, 0, 0, 1>>
    [] a = "fd00::1" -> <<253, 0, 0, 0, 0, 0, 0, 0, 0, 0, 0, 0, 0, 0, 0, 1>>
    [] OTHER -> NoIP

\* net.IP.To4: the 4-byte form of an IPv4 or IPv4-mapped address, else nil.
To4(ip) ==
  IF Len(ip) = 4 THEN ip
  ELSE IF /\ Len(ip) = 16
          /\ \A i \in 1..10 : ip[i] = 0
          /\ ip[11] = 255
          /\ ip[12] = 255
       THEN SubSeq(ip, 13, 16)
       ELSE NoIP

\* net.IP.IsLoopback as used by the loopback guard.
IsLoopback(ip) ==
  IF To4(ip) # NoIP THEN To4(ip)[1] = 127 ELSE ip = IPv6loopback

\* net.IP.Equal as used by the direction test.
IPEqual(a, b) ==
  IF Len(a) = Len(b) THEN a = b
  ELSE IF Len(a) = 4 /\ Len(b) = 16 THEN To4(b) = a
  ELSE IF Len(a) = 16 /\ Len(b) = 4 THEN To4(a) = b
  ELSE FALSE

\* ----------------------------------------------------------------- packets
\* A parsed packet as gopacket presents it: which IP layer it carries, the
\* transport protocol, addresses, ports and length.
ShapeA ==
  [layer |-> "ip4", family |-> AfInet, proto |-> ProtoTCP, src |-> "10.0.0.5",
   sport |-> 54321, dst |-> "93.184.216.34", dport |-> 443, length |-> 60]
ShapeAReply ==
  [layer |-> "ip4", family |-> AfInet, proto |-> ProtoTCP,
   src |-> "93.184.216.34", sport |-> 443, dst |-> "10.0.0.5",
   dport |-> 54321, length |-> 1500]
ShapeB ==
  [layer |-> "ip6", family |-> AfInet6, proto |-> ProtoUDP,
   src |-> "2001:db8::5", sport |-> 5353, dst |-> "2001:db8::1",
   dport |-> 53, length |-> 80]
ShapeLoop4 ==
  [layer |-> "ip4", family |-> AfInet, proto |-> ProtoTCP, src |-> "10.0.0.5",
   sport |-> 54321, dst |-> "127.0.0.1", dport |-> 443, length |-> 60]
ShapeLoop6 ==
  [layer |-> "ip6", family |-> AfInet6, proto |-> ProtoUDP, src |-> "::1",
   sport |-> 5353, dst |-> "2001:db8::1", dport |-> 53, length |-> 80]
ShapeArp ==
  [layer |-> "none", family |-> AfInet, proto |-> 0, src |-> "",
   sport |-> 0, dst |-> "", dport |-> 0, length |-> 28]

\* Packets to and from the host itself, whose address is 192.0.2.1: an
\* inbound SSH flow, an inbound DNS query, an outbound HTTPS flow.
ShapeIn ==
  [layer |-> "ip4", family |-> AfInet, proto |-> ProtoTCP, src |-> "10.0.0.5",
   sport |-> 54321, dst |-> "192.0.2.1", dport |-> 22, length |-> 60]
ShapeInReply ==
  [layer |-> "ip4", family |-> AfInet, proto |-> ProtoTCP, src |-> "192.0.2.1",
   sport |-> 22, dst |-> "10.0.0.5", dport |-> 54321, length |-> 60]
ShapeInDns ==
  [layer |-> "ip4", family |-> AfInet, proto |-> ProtoUDP, src |-> "10.0.0.5",
   sport |-> 5353, dst |-> "192.0.2.1", dport |-> 53, length |-> 80]
ShapeOut ==
  [layer |-> "ip4", family |-> AfInet, proto |-> ProtoTCP, src |-> "192.0.2.1",
   sport |-> 40000, dst |-> "93.184.216.34", dport |-> 443, length |-> 60]
ShapeOutReply ==
  [layer |-> "ip4", family |-> AfInet, proto |-> ProtoTCP,
   src |-> "93.184.216.34", sport |-> 443, dst |-> "192.0.2.1",
   dport |-> 40000, length |-> 1500]

FlowShapes == {ShapeA, ShapeAReply, ShapeB}
Shapes == FlowShapes \cup {ShapeLoop4, ShapeLoop6, ShapeArp}

\* A 32-bit mark is kept as its two 16-bit halves, hi * 65536 + lo; the bit
\* constants above are the upper halves of 0x10000000, 0x80000000, 0x01000000.
Mark(hi, lo) == [hi |-> hi % HalfWord, lo |-> lo % HalfWord]

\* Packet marks: interface id 2 without the new-flow bit; and a mark with
\* new-flow bit, bypass bit, interface type 3 and interface id 1.
Marks ==
  {Mark(0, 2), Mark(BypassBit + NewFlowBit + 3 * IfaceTypeUnit, 1)}

\* Marks as provisioned by the ruleset before the packetd-queue chain.
BaseMarks == {Mark(3 * IfaceTypeUnit, 1)}

\* pmark & 0x10000000 != 0
newSessionBit(pmark) == (pmark.hi \div NewFlowBit) % 2 = 1

\* uint8(pmark & 0x000000FF)
interfaceID(pmark) == pmark.lo % IfaceIDSpan

\* An interface type taken from the shifted mark without the mask.
interfaceTypeUnmasked(pmark) == pmark.hi \div IfaceTypeUnit

\* uint8((pmark & 0x03000000) >> 24)
interfaceType(pmark) == (pmark.hi \div IfaceTypeUnit) % IfaceTypeSpan

\* A ruleset that queues the mark as it came.
keepMark(pmark) == pmark

\* mark | 0x10000000
setNewFlowBit(pmark) ==
  IF newSessionBit(pmark) THEN pmark
  ELSE [pmark EXCEPT !.hi = @ + NewFlowBit]

\* mess.MsgTuple as filled from the IP layer and the TCP/UDP layer.
MsgTuple(m) ==
  [Protocol |-> m.proto,
   ClientAddress |-> m.src,
   ClientPort |-> IF m.proto \in {ProtoTCP, ProtoUDP} THEN m.sport ELSE 0,
   ServerAddress |-> m.dst,
   ServerPort |-> IF m.proto \in {ProtoTCP, ProtoUDP} THEN m.dport ELSE 0]

\* Tuple.Equal: all five fields match.
TupleEqual(a, b) ==
  /\ a.Protocol = b.Protocol
  /\ IPEqual(Octets(a.ClientAddress), Octets(b.ClientAddress))
  /\ a.ClientPort = b.ClientPort
  /\ IPEqual(Octets(a.ServerAddress), Octets(b.ServerAddress))
  /\ a.ServerPort = b.ServerPort

\* The tuple of the opposite direction of the same flow.
ReverseTuple(t) ==
  [Protocol |-> t.Protocol,
   ClientAddress |-> t.ServerAddress, ClientPort |-> t.ServerPort,
   ServerAddress |-> t.ClientAddress, ServerPort |-> t.ClientPort]

\* ----------------------------------------------------- subscription registry
\* The global nfqueue subscription list: owner and priority of each plugin.
Registry ==
  {[Owner |-> "geoip", Priority |-> 0],
   [Owner |-> "dns", Priority |-> 1],
   [Owner |-> "sni", Priority |-> 1]}

Owners == {s.Owner : s \in Registry}

\* ------------------------------------------------------------------- state
VARIABLES
  sessionTable,    \* ctid -> session id, 0 when absent
  sessions,        \* every Session object ever created, indexed by session id
  conntrackTable,  \* ctid -> conntrack record, NoConntrack when absent
  dict,            \* dictionary table "sessions": ctid -> field -> value
  pc,              \* per dispatcher thread: idle, queued, collect, returned
  mess,            \* per dispatcher thread: the packet being handled
  sess,            \* per dispatcher thread: session id of mess.Session
  newFlag,         \* per dispatcher thread: newSession passed to the plugins
  sublist,         \* per dispatcher thread: snapshot of the subscriptions
  subcount,        \* per dispatcher thread: subscribers called so far
  priority,        \* per dispatcher thread: current tier
  hitcount,        \* per dispatcher thread: handlers spawned in this tier
  nread,           \* per dispatcher thread: results read in this tier
  task,            \* per dispatcher thread and owner: state of the handler
  verdict,         \* per dispatcher thread: <<v>> once the callback returned
  crashed,         \* "no", or why the process died
  path,            \* per dispatcher thread: the branch the callback took
  dispatched,      \* per session id: packets the dispatcher handled for it
  released,        \* per session id: owners whose session_release was read
  barred,          \* per dispatcher thread: released[sess] at dispatch
  kct,             \* the kernel's conntrack entries: ctid -> entry
  stale,           \* per session id: last activity older than the threshold
  bypassFlag,      \* the global traffic bypass flag
  request,         \* the traffic-control request being served, if any
  geoDatabase,     \* the geoip plugin's database handle: nil, open, closed
  geoMutex,        \* holder of the geoip plugin's mutex, <<>> when free
  geoControl,      \* where PluginStartup or PluginShutdown stands
  logLevelMap,     \* the logger's map: source name -> pointer to its level
  levelCells,      \* the int32 cells the map's pointers lead to
  counters,        \* the overseer's counters by name
  logThread,       \* per goroutine: where its AdjustSourceLogLevel stands
  logCall,         \* the logger call that returned last, with its result
  known,           \* sources configured at startup or adjusted since
  tainted,         \* sources adjusted below zero or by overlapping calls
  events,          \* packets and conntrack events that entered so far
  lastCtid         \* the highest ctid the kernel has used so far

vars ==
  <<sessionTable, sessions, conntrackTable, dict, pc, mess, sess, newFlag,
    sublist, subcount, priority, hitcount, nread, task, verdict, crashed,
    path, dispatched, released, barred, kct, stale, bypassFlag, request,
    geoDatabase, geoMutex, geoControl,
    logLevelMap, levelCells, counters, logThread, logCall, known, tainted,
    events, lastCtid>>

geo == <<geoDatabase, geoMutex, geoControl>>
logging ==
  <<logLevelMap, levelCells, counters, logThread, logCall, known, tainted>>
outside == <<kct, stale, bypassFlag, request, geo, logging>>
tables ==
  <<sessionTable, sessions, conntrackTable, dispatched, released, outside>>
locals == <<mess, sess, newFlag, path, barred>>
loopvars == <<sublist, subcount, priority, hitcount, nread>>

NoConntrack == [present |-> FALSE]
NoKct == [state |-> "none"]
NoRequest ==
  [parsed |-> FALSE, found |-> FALSE, bypass |-> <<>>, pending |-> FALSE]
NoMess == [ctid |-> 0]
NoTasks == [o \in Owners |-> "none"]
EmptyEntry == <<>>

\* The log levels of syslog.h the model names.
LogLevelErr == 3
LogLevelInfo == 6
LogLevelDebug == 7

\* The sources whose levels the model follows: a package, and one of its
\* functions as findCallingFunction names it.
Sources == {"dispatch", "dispatch.nfqueueCallback"}

\* The names of the overseer counters the dispatcher's messages use.
CounterNames == {"nfqueue_plugin_timeout", "conntrack_id_mismatch"}

\* The cell loadLoggerConfig allocates for a source of the configuration.
configCell(source) == <<source, 0>>

\* loadLoggerConfig: one new cell per configured source, holding its level.
loadLoggerConfig(config) ==
  [cells |-> [p \in {configCell(s) : s \in DOMAIN config} |-> config[p[1]]],
   map |-> [s \in DOMAIN config |-> configCell(s)]]

\* The configuration initLoggerConfig writes: every package at INFO.
DefaultConfig == [s \in {"dispatch"} |-> LogLevelInfo]

NoCall == [op |-> "none", level |-> <<>>, name |-> <<>>, result |-> <<>>]
IdleThread == [pc |-> "idle"]

\* The logger after Startup with the configuration config.
LoggerStarted(config) ==
  /\ logLevelMap = loadLoggerConfig(config).map
  /\ levelCells = loadLoggerConfig(config).cells
  /\ counters = [n \in CounterNames |-> 0]
  /\ logThread = [w \in Workers |-> IdleThread]
  /\ logCall = NoCall
  /\ known = DOMAIN config
  /\ tainted = {}

Init ==
  /\ sessionTable = [c \in Ctids |-> 0]
  /\ sessions = <<>>
  /\ conntrackTable = [c \in Ctids |-> NoConntrack]
  /\ dict = [c \in Ctids |-> EmptyEntry]
  /\ pc = [w \in Workers |-> "idle"]
  /\ mess = [w \in Workers |-> NoMess]
  /\ sess = [w \in Workers |-> 0]
  /\ newFlag = [w \in Workers |-> FALSE]
  /\ sublist = [w \in Workers |-> {}]
  /\ subcount = [w \in Workers |-> 0]
  /\ priority = [w \in Workers |-> 0]
  /\ hitcount = [w \in Workers |-> 0]
  /\ nread = [w \in Workers |-> 0]
  /\ task = [w \in Workers |-> NoTasks]
  /\ verdict = [w \in Workers |-> <<>>]
  /\ crashed = "no"
  /\ path = [w \in Workers |-> "none"]
  /\ dispatched = <<>>
  /\ released = <<>>
  /\ barred = [w \in Workers |-> {}]
  /\ kct = [c \in Ctids |-> NoKct]
  /\ stale = <<>>
  /\ bypassFlag = FALSE
  /\ geoDatabase = "open"
  /\ geoMutex = <<>>
  /\ geoControl = "up"
  /\ LoggerStarted(DefaultConfig)
  /\ request = NoRequest
  /\ events = 0
  /\ lastCtid = 0

\* -------------------------------------------------------------- dictionary
\* dict.AddSessionEntry(ctid, field, value): last writer wins.
AddSessionEntry(d, ctid, field, value) ==
  [d EXCEPT ![ctid] = (field :> value) @@ @]

\* Erasing sessions[ctid] (the ruleset's flush, conntrack DESTROY).
DeleteSession(d, ctid) == [d EXCEPT ![ctid] = EmptyEntry]

bypassed(d, ctid) ==
  "bypass_packetd" \in DOMAIN d[ctid] /\ d[ctid]["bypass_packetd"] = TRUE

\* ------------------------------------------------------------ session table
findSession(tbl, ctid) == tbl[ctid]

insertSessionTable(tbl, ctid, sid) == [tbl EXCEPT ![ctid] = sid]

\* session.removeFromSessionTable(): delete the entry under the session's ctid.
removeFromSessionTable(tbl, session) ==
  [tbl EXCEPT ![session.conntrackID] = 0]

\* A removal that leaves the record.
keepConntrack(ct, ctid) == ct

removeConntrack(ct, ctid) == [ct EXCEPT ![ctid] = NoConntrack]

\* AttachNfqueueSubscriptions: the session's own copy of the global list.
AttachNfqueueSubscriptions == Registry

\* MirrorNfqueueSubscriptions: a snapshot of the session's live set.
MirrorNfqueueSubscriptions(session) == session.subscriptions

\* ------------------------------------------------------------ ReleaseSession
\* A ReleaseSession that drops the subscription and never writes the bypass.
ReleaseSessionNoBypass(ss, d, sid, owner) ==
  [sessions |-> [ss EXCEPT ![sid].subscriptions =
                             {s \in @ : s.Owner # owner}],
   dict |-> d]

\* A ReleaseSession without the early return on an empty map.
ReleaseSessionNoReturn(ss, d, sid, owner) ==
  LET after == {s \in ss[sid].subscriptions : s.Owner # owner}
  IN [sessions |-> [ss EXCEPT ![sid].subscriptions = after],
      dict |-> IF Cardinality(after) = 0
               THEN AddSessionEntry(d, ss[sid].conntrackID,
                                    "bypass_packetd", TRUE)
               ELSE d]

ReleaseSession(ss, d, sid, owner) ==
  LET origLen == Cardinality(ss[sid].subscriptions)
      after == {s \in ss[sid].subscriptions : s.Owner # owner}
  IN IF origLen = 0
     THEN [sessions |-> ss, dict |-> d]
     ELSE [sessions |-> [ss EXCEPT ![sid].subscriptions = after],
           dict |-> IF Cardinality(after) = 0
                    THEN AddSessionEntry(d, ss[sid].conntrackID,
                                         "bypass_packetd", TRUE)
                    ELSE d]

\* ------------------------------------------------------------- createSession
\* A createSession that stores the session id where the conntrack id belongs.
createSessionKeyedBySid(m, ctid, sid) ==
  [sessionID |-> sid,
   conntrackID |-> sid,
   packetCount |-> 1,
   byteCount |-> m.length,
   eventCount |-> 1,
   clientSideTuple |-> MsgTuple(m),
   family |-> m.family,
   conntrackConfirmed |-> FALSE,
   clientInterfaceID |-> 0,
   clientInterfaceType |-> 0,
   serverInterfaceID |-> 0,
   serverInterfaceType |-> 0,
   attachments |-> <<>>,
   subscriptions |-> AttachNfqueueSubscriptions]

createSession(m, ctid, sid) ==
  [sessionID |-> sid,
   conntrackID |-> ctid,
   packetCount |-> 1,
   byteCount |-> m.length,
   eventCount |-> 1,
   clientSideTuple |-> MsgTuple(m),
   family |-> m.family,
   conntrackConfirmed |-> FALSE,
   clientInterfaceID |-> 0,
   clientInterfaceType |-> 0,
   serverInterfaceID |-> 0,
   serverInterfaceType |-> 0,
   attachments |-> <<>>,
   subscriptions |-> AttachNfqueueSubscriptions]

\* ----------------------------------------------------------- nfqueueCallback
\* The parse step: neither an IPv4 nor an IPv6 layer.
unparsed(m) == m.layer \notin {"ip4", "ip6"}

\* A callback without the loopback guard.
loopbackNever(m) == FALSE

\* The loopback guard.
loopback(m) == IsLoopback(Octets(m.src)) \/ IsLoopback(Octets(m.dst))

\* A callback without the mid-flow branch.
midFlowNever(tbl, m) == FALSE

\* No session and not a new packet: the mid-flow branch.
midFlow(tbl, m) ==
  findSession(tbl, m.ctid) = 0 /\ ~newSessionBit(m.pmark)

\* A mid-flow branch that drops the packet it cannot place.
midFlowResultDrop(d, ctid) ==
  [dict |-> AddSessionEntry(d, ctid, "bypass_packetd", TRUE),
   verdict |-> NfDrop]

\* A mid-flow branch that accepts without writing the bypass.
midFlowResultNoWrite(d, ctid) == [dict |-> d, verdict |-> NfAccept]

\* What the mid-flow branch does: write the bypass and return.
midFlowResult(d, ctid) ==
  [dict |-> AddSessionEntry(d, ctid, "bypass_packetd", TRUE),
   verdict |-> NfAccept]

\* A session created for the packet and inserted under its ctid.
withNewSession(tbl, ss, d, m, how) ==
  [sessionTable |-> insertSessionTable(tbl, m.ctid, Len(ss) + 1),
   sessions |-> Append(ss, createSession(m, m.ctid, Len(ss) + 1)),
   dict |-> d,
   session |-> Len(ss) + 1,
   newSession |-> TRUE,
   path |-> how]

\* A conflicting-tuple branch with session.flushDict() left in.
conflictingSessionFlush(tbl, ss, d, m) ==
  withNewSession(removeFromSessionTable(tbl, ss[findSession(tbl, m.ctid)]),
                 ss, DeleteSession(d, m.ctid), m, "reuse")

\* The conflicting-tuple branch: the old session leaves the table, a new one
\* takes the ctid; the dictionary is not flushed.
conflictingSession(tbl, ss, d, m) ==
  withNewSession(removeFromSessionTable(tbl, ss[findSession(tbl, m.ctid)]),
                 ss, d, m, "reuse")

\* A session resolution that leaves newSession set for a re-marked packet.
resolveSessionStillNew(tbl, ss, d, m) ==
  IF findSession(tbl, m.ctid) = 0
  THEN withNewSession(tbl, ss, d, m, "created")
  ELSE IF newSessionBit(m.pmark)
       THEN IF TupleEqual(MsgTuple(m),
                          ss[findSession(tbl, m.ctid)].clientSideTuple)
            THEN [sessionTable |-> tbl, sessions |-> ss, dict |-> d,
                  session |-> findSession(tbl, m.ctid),
                  newSession |-> TRUE, path |-> "remark"]
            ELSE conflictingSession(tbl, ss, d, m)
       ELSE [sessionTable |-> tbl, sessions |-> ss, dict |-> d,
             session |-> findSession(tbl, m.ctid),
             newSession |-> FALSE, path |-> "existing"]

\* Session resolution for a packet that is not a mid-flow packet without
\* session.
resolveSession(tbl, ss, d, m) ==
  IF findSession(tbl, m.ctid) = 0
  THEN withNewSession(tbl, ss, d, m, "created")
  ELSE IF newSessionBit(m.pmark)
       THEN IF TupleEqual(MsgTuple(m),
                          ss[findSession(tbl, m.ctid)].clientSideTuple)
            THEN [sessionTable |-> tbl, sessions |-> ss, dict |-> d,
                  session |-> findSession(tbl, m.ctid),
                  newSession |-> FALSE, path |-> "remark"]
            ELSE conflictingSession(tbl, ss, d, m)
       ELSE [sessionTable |-> tbl, sessions |-> ss, dict |-> d,
             session |-> findSession(tbl, m.ctid),
             newSession |-> FALSE, path |-> "existing"]

\* mess.ClientToServer
clientToServer(m, session) ==
  IPEqual(Octets(m.src), Octets(session.clientSideTuple.ClientAddress))

\* Client interface attribution for a new session.
setClientInterface(session, m, isNew) ==
  IF isNew
  THEN [session EXCEPT !.clientInterfaceID = interfaceID(m.pmark),
                       !.clientInterfaceType = interfaceType(m.pmark)]
  ELSE session

\* A server interface attribution that does not look at the id already set.
setServerInterfaceAlways(session, m) ==
  IF ~clientToServer(m, session)
  THEN [session EXCEPT !.serverInterfaceID = interfaceID(m.pmark),
                       !.serverInterfaceType = interfaceType(m.pmark)]
  ELSE session

\* Server interface attribution on a server-to-client packet.
setServerInterface(session, m) ==
  IF ~clientToServer(m, session) /\ session.serverInterfaceID = 0
  THEN [session EXCEPT !.serverInterfaceID = interfaceID(m.pmark),
                       !.serverInterfaceType = interfaceType(m.pmark)]
  ELSE session

\* The accounting bits.
account(session, m) ==
  [session EXCEPT !.packetCount = @ + 1,
                  !.byteCount = @ + m.length,
                  !.eventCount = @ + 1]

\* Everything between session resolution and callSubscribers.
updateSession(session, m, isNew) ==
  account(setServerInterface(setClientInterface(session, m, isNew), m), m)

\* ------------------------------------------------------------ callSubscribers
\* An empty-snapshot branch that returns without writing the bypass.
emptySnapshotNoWrite(d, ctid) == [dict |-> d, verdict |-> NfAccept]

\* callSubscribers with an empty snapshot: write the bypass and return.
emptySnapshot(d, ctid) ==
  [dict |-> AddSessionEntry(d, ctid, "bypass_packetd", TRUE),
   verdict |-> NfAccept]

\* A tier test that lets the higher priorities in with the current one.
tierMembersFrom(sl, pri) == {s \in sl : s.Priority >= pri}

\* The handlers spawned in one iteration of the priority loop.
tierMembers(sl, pri) == {s \in sl : s.Priority = pri}

\* The priorities from pri up to the bound at which the loop finds handlers
\* to spawn.
tiersAhead(sl, pri) == {s.Priority : s \in sl} \cap (pri..MaxPriority)

\* The priority loop from its condition, at tier pri with count subscribers
\* called: the next tier that spawns handlers, the return, or the panic of the
\* priority constraint. Tiers without subscribers only advance the priority,
\* so the loop stops at the lowest tier ahead that has one, and panics when
\* the priority passes the bound first.
priorityLoop(sl, count, pri) ==
  IF count = Cardinality(sl) THEN [kind |-> "return"]
  ELSE IF tiersAhead(sl, pri) # {}
  THEN [kind |-> "spawn",
        priority |-> CHOOSE p \in tiersAhead(sl, pri) :
                       \A q \in tiersAhead(sl, pri) : p <= q]
  ELSE [kind |-> "panic"]

\* An end of iteration whose constraint is priority >= 100.
afterTierEarly(sl, count, pri) ==
  IF pri + 1 > MaxPriority - 1 THEN [kind |-> "panic"]
  ELSE priorityLoop(sl, count, pri + 1)

\* The end of an iteration: priority++, the constraint, then the loop again.
afterTier(sl, count, pri) ==
  IF pri + 1 > MaxPriority THEN [kind |-> "panic"]
  ELSE priorityLoop(sl, count, pri + 1)

\* A dispatcher that reads one result per tier.
resultsWantedFirst(members) == 1

\* The results the dispatcher reads in a tier: one per handler spawned.
resultsWanted(members) == Cardinality(members)

\* The process dies: its memory is gone, no verdict is returned for the
\* packets in flight; the dictionary, which lives in the kernel, stays.
Crash(why) ==
  /\ crashed' = why
  /\ sessionTable' = [c \in Ctids |-> 0]
  /\ sessions' = <<>>
  /\ conntrackTable' = [c \in Ctids |-> NoConntrack]
  /\ dispatched' = <<>>
  /\ released' = <<>>
  /\ barred' = [w \in Workers |-> {}]
  /\ stale' = <<>>
  /\ bypassFlag' = FALSE
  /\ UNCHANGED <<geo, logging>>
  /\ request' = NoRequest
  /\ UNCHANGED kct
  /\ pc' = [w \in Workers |-> "dead"]
  /\ mess' = [w \in Workers |-> NoMess]
  /\ sess' = [w \in Workers |-> 0]
  /\ newFlag' = [w \in Workers |-> FALSE]
  /\ path' = [w \in Workers |-> "none"]
  /\ sublist' = [w \in Workers |-> {}]
  /\ subcount' = [w \in Workers |-> 0]
  /\ priority' = [w \in Workers |-> 0]
  /\ hitcount' = [w \in Workers |-> 0]
  /\ nread' = [w \in Workers |-> 0]
  /\ task' = [w \in Workers |-> NoTasks]
  /\ verdict' = [w \in Workers |-> <<>>]
  /\ UNCHANGED <<dict, events, lastCtid>>

\* The callback returns v on dispatcher thread w.
Return(w, v) ==
  /\ pc' = [pc EXCEPT ![w] = "returned"]
  /\ verdict' = [verdict EXCEPT ![w] = <<v>>]

\* The loop step st taken by thread w with snapshot sl and count called.
Step(w, sl, count, st) ==
  /\ st.kind # "panic"
  /\ sublist' = [sublist EXCEPT ![w] = sl]
  /\ IF st.kind = "spawn"
     THEN /\ pc' = [pc EXCEPT ![w] = "collect"]
          /\ priority' = [priority EXCEPT ![w] = st.priority]
          /\ hitcount' =
               [hitcount EXCEPT
                  ![w] = resultsWanted(tierMembers(sl, st.priority))]
          /\ subcount' =
               [subcount EXCEPT
                  ![w] = count + Cardinality(tierMembers(sl, st.priority))]
          /\ nread' = [nread EXCEPT ![w] = 0]
          /\ task' =
               [task EXCEPT
                  ![w] = [o \in Owners |->
                            IF o \in {s.Owner : s \in tierMembers(sl, st.priority)}
                            THEN "spawned" ELSE @[o]]]
          /\ UNCHANGED <<verdict, crashed>>
     ELSE /\ Return(w, NfAccept)
          /\ UNCHANGED <<priority, subcount, hitcount, nread, task, crashed>>

\* Packets of one flow are delivered to one queue, in order.
sameFlow(a, b) ==
  /\ a.ctid = b.ctid
  /\ \/ TupleEqual(MsgTuple(a), MsgTuple(b))
     \/ TupleEqual(MsgTuple(a), ReverseTuple(MsgTuple(b)))

\* Ctids are interchangeable: the kernel's ids are numbered in the order in
\* which they first appear.
UseCtid(c) ==
  /\ c <= lastCtid + 1
  /\ lastCtid' = IF c > lastCtid THEN c ELSE lastCtid

\* Dispatcher thread w can take a packet. The threads are interchangeable: a
\* packet goes to the first idle one.
Ready(w) ==
  /\ crashed = "no"
  /\ pc[w] = "idle"
  /\ \A v \in Workers : v < w => pc[v] # "idle"
  /\ events < MaxEvents

\* Packet m is handed to dispatcher thread w.
Enqueue(w, m) ==
  /\ \A v \in Workers \ {w} : pc[v] # "idle" => ~sameFlow(mess[v], m)
  /\ UseCtid(m.ctid)
  /\ events' = events + 1
  /\ pc' = [pc EXCEPT ![w] = "queued"]
  /\ mess' = [mess EXCEPT ![w] = m]
  /\ UNCHANGED <<sess, newFlag, path, barred, loopvars, task, verdict,
                 crashed, tables>>

\* Any packet may be handed to the dispatcher (the callback's own contract).
Packet(w) ==
  /\ Ready(w)
  /\ \E c \in Ctids, sh \in Shapes, mk \in Marks :
       Enqueue(w, sh @@ [ctid |-> c, pmark |-> mk])
  /\ UNCHANGED dict

\* nfqueueCallback up to the first tier's fan-out (or its early return), with
\* the session table as findSession saw it.
Proceed(w, tbl) ==
     IF unparsed(mess[w]) \/ loopback(mess[w])
     THEN /\ Return(w, NfAccept)
          /\ path' = [path EXCEPT ![w] = IF unparsed(mess[w]) THEN "unparsed"
                                         ELSE "loopback"]
          /\ UNCHANGED <<dict, mess, sess, newFlag, barred, loopvars, task,
                         crashed, tables, events, lastCtid>>
     ELSE IF midFlow(tbl, mess[w])
     THEN /\ Return(w, midFlowResult(dict, mess[w].ctid).verdict)
          /\ dict' = midFlowResult(dict, mess[w].ctid).dict
          /\ path' = [path EXCEPT ![w] = "midflow"]
          /\ UNCHANGED <<mess, sess, newFlag, barred, loopvars, task, crashed,
                         tables, events, lastCtid>>
     ELSE LET r == resolveSession(tbl, sessions, dict, mess[w])
              sid == r.session
              session == updateSession(r.sessions[sid], mess[w], r.newSession)
              sl == MirrorNfqueueSubscriptions(session)
          IN IF sl # {} /\ priorityLoop(sl, 0, 0).kind = "panic"
             THEN Crash("priority_constraint")
             ELSE
             /\ UNCHANGED <<mess, events, lastCtid>>
             /\ sessionTable' = IF r.path \in {"created", "reuse"}
                                THEN r.sessionTable ELSE sessionTable
             /\ sessions' = [r.sessions EXCEPT ![sid] = session]
             /\ conntrackTable' =
                  IF r.newSession THEN removeConntrack(conntrackTable, mess[w].ctid)
                  ELSE conntrackTable
             /\ dispatched' =
                  IF sid > Len(dispatched) THEN Append(dispatched, 1)
                  ELSE [dispatched EXCEPT ![sid] = @ + 1]
             /\ released' =
                  IF sid > Len(released) THEN Append(released, {})
                  ELSE released
             /\ stale' =
                  IF sid > Len(stale) THEN Append(stale, FALSE)
                  ELSE [stale EXCEPT ![sid] = FALSE]
             /\ UNCHANGED <<kct, bypassFlag, request, geo, logging>>
             /\ barred' =
                  [barred EXCEPT ![w] = IF sid > Len(released) THEN {}
                                        ELSE released[sid]]
             /\ sess' = [sess EXCEPT ![w] = sid]
             /\ newFlag' = [newFlag EXCEPT ![w] = r.newSession]
             /\ path' = [path EXCEPT ![w] = r.path]
             /\ IF sl = {}
                THEN /\ dict' = emptySnapshot(r.dict, session.conntrackID).dict
                     /\ Return(w, emptySnapshot(r.dict,
                                                session.conntrackID).verdict)
                     /\ UNCHANGED <<loopvars, task, crashed>>
                ELSE /\ dict' = r.dict
                     /\ Step(w, sl, 0, priorityLoop(sl, 0, 0))

NfqueueCallback(w) ==
  /\ crashed = "no"
  /\ pc[w] = "queued"
  /\ Proceed(w, sessionTable)

\* The verdict has gone back to the kernel; the thread takes the next packet.
Done(w) ==
  /\ crashed = "no"
  /\ pc[w] = "returned"
  /\ pc' = [pc EXCEPT ![w] = "idle"]
  /\ mess' = [mess EXCEPT ![w] = NoMess]
  /\ sess' = [sess EXCEPT ![w] = 0]
  /\ newFlag' = [newFlag EXCEPT ![w] = FALSE]
  /\ path' = [path EXCEPT ![w] = "none"]
  /\ barred' = [barred EXCEPT ![w] = {}]
  /\ sublist' = [sublist EXCEPT ![w] = {}]
  /\ subcount' = [subcount EXCEPT ![w] = 0]
  /\ priority' = [priority EXCEPT ![w] = 0]
  /\ hitcount' = [hitcount EXCEPT ![w] = 0]
  /\ nread' = [nread EXCEPT ![w] = 0]
  /\ task' = [task EXCEPT ![w] = NoTasks]
  /\ verdict' = [verdict EXCEPT ![w] = <<>>]
  /\ UNCHANGED <<tables, dict, crashed, events, lastCtid>>

\* ------------------------------------------------------------ plugin handlers
pluginName == "geoip"

\* Whether a handler calls ReleaseSession(mess.Session, owner) on entry. The
\* geoip handler always does; of the plugins known by their contract only,
\* sni may, and dns releases through its result instead.
entryReleases(o) ==
  IF o = pluginName THEN {TRUE}
  ELSE IF o = "sni" THEN BOOLEAN
  ELSE {FALSE}

\* The session_release values a handler may return.
handlerResults(o) == IF o = "dns" THEN BOOLEAN ELSE {FALSE}

\* isPrivateIP: the address lies in one of privateIPBlocks (127.0.0.0/8,
\* 10.0.0.0/8, 172.16.0.0/12, 192.168.0.0/16, ::1/128, fe80::/10, fc00::/7).
isPrivateIP(ip) ==
  IF To4(ip) # NoIP
  THEN \/ To4(ip)[1] = 127
       \/ To4(ip)[1] = 10
       \/ (To4(ip)[1] = 172 /\ To4(ip)[2] \div 16 = 1)
       \/ (To4(ip)[1] = 192 /\ To4(ip)[2] = 168)
  ELSE /\ Len(ip) = 16
       /\ \/ ip = IPv6loopback
          \/ (ip[1] = 254 /\ ip[2] \div 64 = 2)
          \/ ip[1] \div 2 = 126

\* geoDatabase.City(addr).Country.IsoCode of the loaded database; "" when the
\* database has no country for the address.
IsoCode(a) == IF a = "93.184.216.34" THEN "US" ELSE ""

\* A country code that never comes from the database.
countryUnlooked(db, a) ==
  IF Octets(a) # NoIP /\ isPrivateIP(Octets(a)) THEN "XL" ELSE "XU"

\* The country code the geoip handler settles on for an address with the
\* database handle db: private first, then the database if there is one.
country(db, a) ==
  IF Octets(a) # NoIP /\ isPrivateIP(Octets(a)) THEN "XL"
  ELSE IF db # "nil" /\ Octets(a) # NoIP /\ IsoCode(a) # "" THEN IsoCode(a)
  ELSE "XU"

\* mess.Session.PutAttachment for both countries.
putCountries(ss, sid, cc, sc) ==
  [ss EXCEPT ![sid].attachments =
     ("client_country" :> cc) @@ ("server_country" :> sc) @@ @]

\* The part of the geoip handler that runs under geoMutex: both countries,
\* written to the dictionary under ctid and attached to the session.
lookup(db, ss, d, sid, m) ==
  [sessions |-> putCountries(ss, sid, country(db, m.src), country(db, m.dst)),
   dict |->
     AddSessionEntry(
       AddSessionEntry(d, m.ctid, "client_country", country(db, m.src)),
       m.ctid, "server_country", country(db, m.dst))]

\* A geoip handler that keeps its subscription.
PluginNfqueueHandlerStays(db, ss, d, sid, m, isNew) ==
  IF isNew THEN lookup(db, ss, d, sid, m) ELSE [sessions |-> ss, dict |-> d]

\* The geoip handler: release at once, then for a new session write the
\* countries of both ends to the dictionary and to the session.
PluginNfqueueHandler(db, ss, d, sid, m, isNew) ==
  IF isNew
  THEN lookup(db, ReleaseSession(ss, d, sid, pluginName).sessions,
              ReleaseSession(ss, d, sid, pluginName).dict, sid, m)
  ELSE ReleaseSession(ss, d, sid, pluginName)

\* The effect of the entry of a handler known by its contract only.
handlerEntry(ss, d, sid, o, rel) ==
  IF rel THEN ReleaseSession(ss, d, sid, o) ELSE [sessions |-> ss, dict |-> d]

\* What invoking the handler of o for the packet of thread w does.
handlerCall(w, o, rel) ==
  IF o = pluginName
  THEN PluginNfqueueHandler(geoDatabase, sessions, dict, sess[w], mess[w],
                            newFlag[w])
  ELSE handlerEntry(sessions, dict, sess[w], o, rel)

\* Task states in which val.NfqueueFunc has been called.
invoked(st) ==
  st \in {"running", "returnedT", "returnedF", "delivered", "zombie"}

\* Task states in which the handler has returned or its watchdog has fired.
finished(st) ==
  st \in {"returnedT", "returnedF", "delivered", "zspawned", "zombie"}

\* The inner goroutine runs val.NfqueueFunc(mess, ctid, newSession).
HandlerInvoke(w, o) ==
  /\ crashed = "no"
  /\ task[w][o] \in {"spawned", "zspawned"}
  /\ task' = [task EXCEPT ![w][o] = IF @ = "spawned" THEN "running" ELSE "zombie"]
  /\ \E rel \in entryReleases(o) :
       /\ sessions' = handlerCall(w, o, rel).sessions
       /\ dict' = handlerCall(w, o, rel).dict
  /\ UNCHANGED <<sessionTable, conntrackTable, dispatched, released, outside,
                 pc, locals, loopvars, verdict, crashed, events, lastCtid>>

\* The handler returns; its result goes to the buffered channel c.
HandlerReturn(w, o, rel) ==
  /\ crashed = "no"
  /\ rel \in handlerResults(o)
  /\ task[w][o] = "running"
  /\ task' = [task EXCEPT ![w][o] = IF rel THEN "returnedT" ELSE "returnedF"]
  /\ UNCHANGED <<tables, dict, pc, locals, loopvars, verdict, crashed,
                 events, lastCtid>>

\* The handler panics in its goroutine: nothing recovers it.
HandlerPanic(w, o) ==
  /\ crashed = "no"
  /\ o # pluginName
  /\ task[w][o] \in {"running", "zombie"}
  /\ Crash("plugin_panic")

\* What the watchdog case of the select leaves of a task: the synthesized
\* result goes to the task's own channel c, never to resultsChannel.
timedOut(st) == IF st = "spawned" THEN "zspawned" ELSE "zombie"

\* timeoutTimer.C fires and the select takes that case.
Timeout(w, o) ==
  /\ crashed = "no"
  /\ task[w][o] \in {"spawned", "running", "returnedT", "returnedF"}
  /\ task' = [task EXCEPT ![w][o] = timedOut(@)]
  /\ UNCHANGED <<tables, dict, pc, locals, loopvars, verdict, crashed,
                 events, lastCtid>>

\* A dispatcher that reads a result without acting on its session_release.
applyResultKeep(ss, d, sid, o, rel) == [sessions |-> ss, dict |-> d]

\* What the dispatcher does with a result read from resultsChannel.
applyResult(ss, d, sid, o, rel) ==
  IF rel THEN ReleaseSession(ss, d, sid, o) ELSE [sessions |-> ss, dict |-> d]

\* The result of o passes from c through resultsChannel to the dispatcher.
Collect(w, o) ==
  /\ crashed = "no"
  /\ pc[w] = "collect"
  /\ nread[w] < hitcount[w]
  /\ task[w][o] \in {"returnedT", "returnedF"}
  /\ task' = [task EXCEPT ![w][o] = "delivered"]
  /\ nread' = [nread EXCEPT ![w] = @ + 1]
  /\ sessions' =
       applyResult(sessions, dict, sess[w], o, task[w][o] = "returnedT").sessions
  /\ dict' =
       applyResult(sessions, dict, sess[w], o, task[w][o] = "returnedT").dict
  /\ released' =
       IF task[w][o] = "returnedT"
       THEN [released EXCEPT ![sess[w]] = @ \cup {o}] ELSE released
  /\ UNCHANGED <<sessionTable, conntrackTable, dispatched, outside, pc,
                 locals, sublist, subcount, priority, hitcount, verdict,
                 crashed, events, lastCtid>>

\* All results of the tier are in: next tier, return, or constraint panic.
Advance(w) ==
  /\ crashed = "no"
  /\ pc[w] = "collect"
  /\ nread[w] = hitcount[w]
  /\ IF afterTier(sublist[w], subcount[w], priority[w]).kind = "panic"
     THEN Crash("priority_constraint")
     ELSE /\ Step(w, sublist[w], subcount[w],
                  afterTier(sublist[w], subcount[w], priority[w]))
          /\ UNCHANGED <<tables, dict, locals, events, lastCtid>>

\* ------------------------------------------------------------ kernel ruleset
\* A packetd-queue chain without the conntrack mark rule.
packetdQueueNoMark(d, m, ctnew, ctbypass) ==
  [dict |-> IF ctnew THEN DeleteSession(d, m.ctid) ELSE d,
   queued |-> /\ ~loopback(m)
              /\ ~bypassed(IF ctnew THEN DeleteSession(d, m.ctid) ELSE d,
                           m.ctid),
   pmark |-> IF ctnew THEN setNewFlowBit(m.pmark) ELSE m.pmark]

\* A packetd-queue chain without the dictionary rule.
packetdQueueNoDict(d, m, ctnew, ctbypass) ==
  [dict |-> IF ctnew THEN DeleteSession(d, m.ctid) ELSE d,
   queued |-> ~loopback(m) /\ ~ctbypass,
   pmark |-> IF ctnew THEN setNewFlowBit(m.pmark) ELSE m.pmark]

\* The packetd-queue chain for a tracked unicast packet: the dictionary after
\* the chain, whether the packet is queued, and the mark it is queued with.
packetdQueue(d, m, ctnew, ctbypass) ==
  LET flushed == IF ctnew THEN DeleteSession(d, m.ctid) ELSE d
  IN [dict |-> flushed,
      queued |-> /\ ~loopback(m)
                 /\ ~bypassed(flushed, m.ctid)
                 /\ ~ctbypass,
      pmark |-> IF ctnew THEN setNewFlowBit(m.pmark) ELSE m.pmark]

\* A packet traverses the installed ruleset and, unless a rule returns early,
\* is queued to dispatcher thread w.
KernelPacket(w) ==
  /\ Ready(w)
  /\ \E c \in Ctids, sh \in {x \in Shapes : ~unparsed(x)}, mk \in BaseMarks,
        ctnew \in BOOLEAN, ctbypass \in BOOLEAN :
       LET r == packetdQueue(dict, sh @@ [ctid |-> c, pmark |-> mk],
                             ctnew, ctbypass)
       IN /\ dict' = r.dict
          /\ IF r.queued
             THEN Enqueue(w, sh @@ [ctid |-> c, pmark |-> r.pmark])
             ELSE /\ UseCtid(c)
                  /\ events' = events + 1
                  /\ UNCHANGED <<pc, locals, loopvars, task, verdict, crashed,
                                 tables>>

\* ------------------------------------------------------------- kernel hooks
\* The host's own addresses: a packet from one of them enters at the output
\* hook, a packet to one of them passes the prerouting hook and then the input
\* hook, any other packet passes the prerouting hook only.
LocalAddrs == {"192.0.2.1"}

HookShapes ==
  {ShapeA, ShapeAReply, ShapeIn, ShapeInReply, ShapeInDns, ShapeOut,
   ShapeOutReply}

\* packetd-output before its goto: ct state new sets bit 0x80000000 of the
\* conntrack mark.
packetdOutput(ctnew, ctbypass) == ctnew \/ ctbypass

\* packetd-input: return on udp or tcp dport 53, else ct state new sets bit
\* 0x80000000 of the conntrack mark.
packetdInput(m, ctnew, ctbypass) ==
  IF m.proto \in {ProtoTCP, ProtoUDP} /\ m.dport = 53 THEN ctbypass
  ELSE ctnew \/ ctbypass

\* The conntrack mark bit with which the packet enters packetd-queue.
markAtQueue(m, ctnew, ctbypass) ==
  IF m.src \in LocalAddrs THEN packetdOutput(ctnew, ctbypass) ELSE ctbypass

\* The conntrack mark bit after the packet has passed all its hooks.
markAfterHooks(m, ctnew, ctbypass) ==
  IF m.src \in LocalAddrs THEN packetdOutput(ctnew, ctbypass)
  ELSE IF m.dst \in LocalAddrs THEN packetdInput(m, ctnew, ctbypass)
  ELSE ctbypass

\* The packet belongs to the flow of conntrack entry e.
ofFlow(sh, e) ==
  \/ TupleEqual(MsgTuple(sh), MsgTuple(e.orig))
  \/ TupleEqual(MsgTuple(sh), ReverseTuple(MsgTuple(e.orig)))

\* A packet of conntrack c passes the hooks of the installed ruleset; the
\* conntrack entry is created by the flow's first packet, which is in state
\* new. The packet's conntrack state and mark bit are kept with the packet.
HookPacket(w) ==
  /\ Ready(w)
  /\ \E c \in Ctids, sh \in HookShapes, mk \in BaseMarks :
       LET ctnew == kct[c].state = "none"
           ctbypass == IF ctnew THEN FALSE ELSE kct[c].bypass
           m == sh @@ [ctid |-> c, pmark |-> mk]
           r == packetdQueue(dict, m, ctnew, markAtQueue(m, ctnew, ctbypass))
       IN /\ ~ctnew => ofFlow(sh, kct[c])
          /\ kct' = [kct EXCEPT
                       ![c] = [state |-> "est",
                               bypass |-> markAfterHooks(m, ctnew, ctbypass),
                               orig |-> IF ctnew THEN sh ELSE kct[c].orig]]
          /\ dict' = r.dict
          /\ IF r.queued
             THEN /\ \A v \in Workers \ {w} :
                       pc[v] # "idle" => ~sameFlow(mess[v], m)
                  /\ pc' = [pc EXCEPT ![w] = "queued"]
                  /\ mess' = [mess EXCEPT
                                ![w] = sh @@ [ctid |-> c, pmark |-> r.pmark,
                                              ctnew |-> ctnew,
                                              ctbypass |->
                                                markAtQueue(m, ctnew, ctbypass)]]
             ELSE UNCHANGED <<pc, mess>>
          /\ UseCtid(c)
          /\ events' = events + 1
          /\ UNCHANGED <<sess, newFlag, path, barred, loopvars, task, verdict,
                         crashed, sessionTable, sessions, conntrackTable,
                         dispatched, released, stale, bypassFlag, request, geo, logging>>

\* The kernel drops the conntrack entry of a flow none of whose packets is
\* queued; the DESTROY event has not been processed yet.
KernelDestroy(c) ==
  /\ crashed = "no"
  /\ kct[c].state = "est"
  /\ \A w \in Workers : pc[w] # "idle" => mess[w].ctid # c
  /\ kct' = [kct EXCEPT ![c] = NoKct]
  /\ UNCHANGED <<sessionTable, sessions, conntrackTable, dispatched, released,
                 stale, bypassFlag, request, geo, logging, dict, pc, locals, loopvars, task,
                 verdict, crashed, events, lastCtid>>

\* --------------------------------------------------------- conntrack events
\* NEW: upsert the record; a session with the same ctid and tuple is linked
\* and confirmed, a conflicting session is left alone.
ConntrackNew(c, sh) ==
  /\ crashed = "no"
  /\ events < MaxEvents
  /\ events' = events + 1
  /\ UseCtid(c)
  /\ LET sid == findSession(sessionTable, c)
         match == sid # 0 /\ TupleEqual(sessions[sid].clientSideTuple, MsgTuple(sh))
     IN /\ conntrackTable' =
             [conntrackTable EXCEPT
                ![c] = [present |-> TRUE, tuple |-> MsgTuple(sh),
                        session |-> IF match THEN sid ELSE 0]]
        /\ sessions' =
             IF match THEN [sessions EXCEPT ![sid].conntrackConfirmed = TRUE]
             ELSE sessions
  /\ UNCHANGED <<sessionTable, dict, dispatched, released, outside, pc,
                 locals, loopvars, task, verdict, crashed>>

\* A DESTROY handler that leaves the conntrack record in place.
destroyKeepsRecord(tbl, ss, ct, d, c) ==
  [sessionTable |-> tbl, conntrackTable |-> ct, dict |-> DeleteSession(d, c)]

\* What DESTROY for ctid c makes of the tables: the record goes, its paired
\* session leaves the session table, sessions[c] is erased.
destroy(tbl, ss, ct, d, c) ==
  [sessionTable |->
     IF /\ ct[c].present
        /\ ct[c].session # 0
        /\ findSession(tbl, c) = ct[c].session
     THEN removeFromSessionTable(tbl, ss[ct[c].session])
     ELSE tbl,
   conntrackTable |-> removeConntrack(ct, c),
   dict |-> DeleteSession(d, c)]

\* DESTROY: the record goes, its paired session leaves the session table, and
\* sessions[ctid] is erased from the dictionary.
ConntrackDestroy(c) ==
  /\ crashed = "no"
  /\ events < MaxEvents
  /\ events' = events + 1
  /\ UseCtid(c)
  /\ conntrackTable' =
       destroy(sessionTable, sessions, conntrackTable, dict, c).conntrackTable
  /\ sessionTable' =
       destroy(sessionTable, sessions, conntrackTable, dict, c).sessionTable
  /\ dict' = destroy(sessionTable, sessions, conntrackTable, dict, c).dict
  /\ UNCHANGED <<sessions, dispatched, released, outside, pc, locals,
                 loopvars, task, verdict, crashed>>

\* ------------------------------------------------------------ specifications
Dispatch ==
  \E w \in Workers :
    \/ NfqueueCallback(w)
    \/ Advance(w)
    \/ Done(w)
    \/ \E o \in Owners :
         \/ HandlerInvoke(w, o)
         \/ HandlerPanic(w, o)
         \/ Timeout(w, o)
         \/ Collect(w, o)
         \/ \E rel \in BOOLEAN : HandlerReturn(w, o, rel)

Conntrack ==
  \E c \in Ctids :
    \/ ConntrackDestroy(c)
    \/ \E sh \in {ShapeA, ShapeB} : ConntrackNew(c, sh)

\* Packets handled one after the other by handlers that do not panic.
FNext ==
  \/ \E w \in Workers :
       /\ \A v \in Workers : pc[v] = "idle"
       /\ Packet(w)
  \/ \E w \in Workers :
       \/ NfqueueCallback(w)
       \/ Advance(w)
       \/ Done(w)
       \/ \E o \in Owners :
            \/ HandlerInvoke(w, o)
            \/ Timeout(w, o)
            \/ Collect(w, o)
            \/ \E rel \in BOOLEAN : HandlerReturn(w, o, rel)

\* The scheduler runs every goroutine that can run and a started timer
\* fires; a handler need not return.
Fairness ==
  \A w \in Workers :
    /\ WF_vars(NfqueueCallback(w))
    /\ WF_vars(Advance(w))
    /\ WF_vars(Done(w))
    /\ \A o \in Owners :
         /\ WF_vars(HandlerInvoke(w, o))
         /\ WF_vars(Timeout(w, o))
         /\ WF_vars(Collect(w, o))

FairSpec == Init /\ [][FNext]_vars /\ Fairness

\* The dispatcher under any packet source.
Next ==
  \/ \E w \in Workers : Packet(w)
  \/ Dispatch
  \/ Conntrack

Spec == Init /\ [][Next]_vars

\* The dispatcher behind the installed ruleset.
KNext ==
  \/ \E w \in Workers : KernelPacket(w)
  \/ Dispatch
  \/ Conntrack

KSpec == Init /\ [][KNext]_vars

\* The dispatcher behind the hooks of the installed ruleset, with the kernel's
\* own conntrack entries.
HNext ==
  \/ \E w \in Workers : HookPacket(w)
  \/ \E c \in Ctids : KernelDestroy(c)
  \/ Dispatch

HookSpec == Init /\ [][HNext]_vars

\* Marks of every kind the callback tells apart: with and without the new-flow
\* bit, with and without the bypass bit, interface types 0..3, interface ids
\* up to 255.
AllMarks ==
  Marks \cup {Mark(NewFlowBit + IfaceTypeUnit, 2),
              Mark(NewFlowBit + 2 * IfaceTypeUnit, 255),
              Mark(IfaceTypeUnit, 3)}

\* One packet at a time, with any of the marks.
MarkedPacket(w) ==
  /\ Ready(w)
  /\ \A v \in Workers : pc[v] = "idle"
  /\ \E c \in Ctids, sh \in Shapes, mk \in AllMarks :
       Enqueue(w, sh @@ [ctid |-> c, pmark |-> mk])
  /\ UNCHANGED dict

\* The dispatcher fed one packet at a time.
SNext ==
  \/ \E w \in Workers : MarkedPacket(w)
  \/ Dispatch
  \/ Conntrack

\* The first packet of an established flow: ctid 1, new-flow bit set.
FirstPacket ==
  ShapeA @@ [ctid |-> 1, pmark |-> Mark(BypassBit + NewFlowBit + 3 * IfaceTypeUnit, 1)]

\* The session FirstPacket created, after its plugins ran and left subs
\* subscribed, and after the flow's conntrack NEW event confirmed it.
EstablishedSession(subs) ==
  [updateSession(createSession(FirstPacket, 1, 1), FirstPacket, TRUE)
     EXCEPT !.subscriptions = subs, !.conntrackConfirmed = TRUE,
            !.attachments =
              PluginNfqueueHandler("open", <<createSession(FirstPacket, 1, 1)>>,
                                   [c \in Ctids |-> EmptyEntry], 1,
                                   FirstPacket, TRUE).sessions[1].attachments]

\* sessions[1] of the dictionary after the geoip handler ran for FirstPacket
\* and, if nobody stayed subscribed, the last release wrote the bypass.
EstablishedEntry(subs) ==
  IF subs = {}
  THEN ("bypass_packetd" :> TRUE) @@
       PluginNfqueueHandler("open", <<createSession(FirstPacket, 1, 1)>>,
                            [c \in Ctids |-> EmptyEntry], 1, FirstPacket,
                            TRUE).dict[1]
  ELSE PluginNfqueueHandler("open", <<createSession(FirstPacket, 1, 1)>>,
                            [c \in Ctids |-> EmptyEntry], 1, FirstPacket,
                            TRUE).dict[1]

\* The state after one flow is established: its first packet has been
\* dispatched and its conntrack NEW event processed; every thread is idle.
EstablishedState(subs) ==
  /\ sessionTable = [c \in Ctids |-> IF c = 1 THEN 1 ELSE 0]
  /\ sessions = <<EstablishedSession(subs)>>
  /\ conntrackTable =
       [c \in Ctids |->
          IF c = 1
          THEN [present |-> TRUE, tuple |-> MsgTuple(ShapeA), session |-> 1]
          ELSE NoConntrack]
  /\ dict = [c \in Ctids |-> IF c = 1 THEN EstablishedEntry(subs)
                              ELSE EmptyEntry]
  /\ pc = [w \in Workers |-> "idle"]
  /\ mess = [w \in Workers |-> NoMess]
  /\ sess = [w \in Workers |-> 0]
  /\ newFlag = [w \in Workers |-> FALSE]
  /\ sublist = [w \in Workers |-> {}]
  /\ subcount = [w \in Workers |-> 0]
  /\ priority = [w \in Workers |-> 0]
  /\ hitcount = [w \in Workers |-> 0]
  /\ nread = [w \in Workers |-> 0]
  /\ task = [w \in Workers |-> NoTasks]
  /\ verdict = [w \in Workers |-> <<>>]
  /\ crashed = "no"
  /\ path = [w \in Workers |-> "none"]
  /\ dispatched = <<1>>
  /\ released = <<{"dns"} \ {s.Owner : s \in subs}>>
  /\ barred = [w \in Workers |-> {}]
  /\ kct = [c \in Ctids |-> NoKct]
  /\ stale = <<FALSE>>
  /\ bypassFlag = FALSE
  /\ geoDatabase = "open"
  /\ geoMutex = <<>>
  /\ geoControl = "up"
  /\ LoggerStarted(DefaultConfig)
  /\ request = NoRequest
  /\ events = 0
  /\ lastCtid = 1

\* The established states the registry of this model leads to.
EstablishedInit ==
  \E subs \in SUBSET {r \in Registry : r.Owner # pluginName} :
    EstablishedState(subs)

\* The dispatcher fed one packet at a time once a flow is established.
SeqSpec == EstablishedInit /\ [][SNext]_vars

\* Priorities a plugin may have registered with, around the loop's bound.
WalkPriorities == {1, MaxPriority - 1, MaxPriority, MaxPriority + 1}

\* Subscription lists of an established session whose plugins registered
\* with any of these priorities.
WalkSubscriptions ==
  {{[Owner |-> o, Priority |-> pri[o]] : o \in os} :
     os \in SUBSET {"dns", "sni"} \ {{}}, pri \in [{"dns", "sni"} -> WalkPriorities]}

\* A later packet of the established flow, in either direction.
WalkPacket(w) ==
  /\ Ready(w)
  /\ \A v \in Workers : pc[v] = "idle"
  /\ \E sh \in {ShapeA, ShapeAReply} :
       Enqueue(w, sh @@ [ctid |-> 1, pmark |-> Mark(0, 2)])
  /\ UNCHANGED dict

WalkInit == \E subs \in WalkSubscriptions : EstablishedState(subs)

WalkNext == (\E w \in Workers : WalkPacket(w)) \/ Dispatch

\* The priority loop over the packets of one flow, for any registration.
WalkSpec == WalkInit /\ [][WalkNext]_vars

\* Priorities on both sides of the range the loop walks, and inside it.
LoopPriorities == {0 - 1, 0, MaxPriority - 1, MaxPriority, MaxPriority + 1}

\* Subscription lists of an established session whose plugins registered
\* with any of these priorities.
LoopSubscriptions ==
  {{[Owner |-> o, Priority |-> pri[o]] : o \in os} :
     os \in SUBSET {"dns", "sni"} \ {{}}, pri \in [{"dns", "sni"} -> LoopPriorities]}

LoopInit == \E subs \in LoopSubscriptions : EstablishedState(subs)

\* The priority loop for registrations inside and outside 0..100.
LoopSpec == LoopInit /\ [][WalkNext]_vars

\* ------------------------------------------------------- traffic control
\* Strings are sequences of code points.
TRUE_ == <<84, 82, 85, 69>>
FALSE_ == <<70, 65, 76, 83, 69>>

\* Simple Unicode case folding, on the letters of the two words: a lower-case
\* letter folds with its capital, the long s (U+017F) with S.
foldRune(r) ==
  IF r \in 97..122 THEN r - 32 ELSE IF r = 383 THEN 83 ELSE r

\* Equality of strings as they are.
EqualExact(s, t) == s = t

\* strings.EqualFold
EqualFold(s, t) ==
  /\ Len(s) = Len(t)
  /\ \A i \in 1..Len(s) : foldRune(s[i]) = foldRune(t[i])

\* Values of the body's "bypass" member: TRUE, true, True, FALSE, false,
\* fal(long s)e, "1", "yes", the empty string, "TRUE " and "TRU".
BypassValues ==
  {TRUE_, <<116, 114, 117, 101>>, <<84, 114, 117, 101>>,
   FALSE_, <<102, 97, 108, 115, 101>>, <<102, 97, 108, 383, 101>>,
   <<49>>, <<121, 101, 115>>, <<>>, <<84, 82, 85, 69, 32>>, <<84, 82, 85>>}

\* Request bodies: not a JSON object of strings, an object without "bypass",
\* an object with it.
Bodies ==
  {[parsed |-> FALSE, found |-> FALSE, bypass |-> <<>>],
   [parsed |-> TRUE, found |-> FALSE, bypass |-> <<>>]}
    \cup {[parsed |-> TRUE, found |-> TRUE, bypass |-> b] : b \in BypassValues}

\* trafficControl: the flag after a request with this body.
trafficControl(flag, body) ==
  IF ~body.parsed THEN flag
  ELSE IF ~body.found THEN flag
  ELSE IF EqualFold(body.bypass, TRUE_) THEN TRUE
  ELSE IF EqualFold(body.bypass, FALSE_) THEN FALSE
  ELSE flag

\* A traffic-control request arrives at the REST daemon.
TrafficRequest(body) ==
  /\ crashed = "no"
  /\ ~request.pending
  /\ request' = body @@ [pending |-> TRUE]
  /\ UNCHANGED <<sessionTable, sessions, conntrackTable, dispatched, released,
                 kct, stale, bypassFlag, geo, logging, dict, pc, locals, loopvars, task,
                 verdict, crashed, events, lastCtid>>

\* Its handler runs.
TrafficControl ==
  /\ crashed = "no"
  /\ request.pending
  /\ bypassFlag' = trafficControl(bypassFlag, request)
  /\ request' = NoRequest
  /\ UNCHANGED <<sessionTable, sessions, conntrackTable, dispatched, released,
                 kct, stale, geo, logging, dict, pc, locals, loopvars, task, verdict,
                 crashed, events, lastCtid>>

\* With the flag set, a packet taken from the queue is accepted before the
\* callback looks at it.
BypassFlagAccept(w) ==
  /\ crashed = "no"
  /\ pc[w] = "queued"
  /\ bypassFlag
  /\ Return(w, NfAccept)
  /\ path' = [path EXCEPT ![w] = "bypassflag"]
  /\ UNCHANGED <<dict, mess, sess, newFlag, barred, loopvars, task, crashed,
                 tables, events, lastCtid>>

\* One packet at a time, and the administrator's requests at any time.
FlagNext ==
  \/ \E w \in Workers :
       /\ \A v \in Workers : pc[v] = "idle"
       /\ Packet(w)
  \/ \E body \in Bodies : TrafficRequest(body)
  \/ TrafficControl
  \/ \E w \in Workers :
       \/ BypassFlagAccept(w)
       \/ ~bypassFlag /\ NfqueueCallback(w)
       \/ Advance(w)
       \/ Done(w)
       \/ \E o \in Owners :
            \/ HandlerInvoke(w, o)
            \/ Timeout(w, o)
            \/ Collect(w, o)
            \/ \E rel \in BOOLEAN : HandlerReturn(w, o, rel)

FlagSpec == Init /\ [][FlagNext]_vars

\* ------------------------------------------------------------------ reaper
\* Packets of two flows that may share a ctid.
ReapPacket(w) ==
  /\ Ready(w)
  /\ \E c \in Ctids, sh \in {ShapeA, ShapeAReply}, mk \in Marks :
       Enqueue(w, sh @@ [ctid |-> c, pmark |-> mk])
  /\ UNCHANGED dict

\* nfqueueCallback up to session := findSession(ctid); the table's lock is
\* held for the lookup only.
FindSession(w) ==
  /\ crashed = "no"
  /\ pc[w] = "queued"
  /\ pc' = [pc EXCEPT ![w] = "looked"]
  /\ sess' = [sess EXCEPT ![w] = findSession(sessionTable, mess[w].ctid)]
  /\ UNCHANGED <<dict, mess, newFlag, path, barred, loopvars, task, verdict,
                 crashed, tables, events, lastCtid>>

\* The rest of nfqueueCallback, with the session the lookup returned.
AfterFindSession(w) ==
  /\ crashed = "no"
  /\ pc[w] = "looked"
  /\ Proceed(w, [sessionTable EXCEPT ![mess[w].ctid] = sess[w]])

\* The idle threshold passes for a session. A session whose last activity a
\* dispatcher thread has just set, and whose packet is still being handled,
\* does not reach the threshold: handlers are given up after maxAllowedTime.
Age(sid) ==
  /\ crashed = "no"
  /\ sid \in 1..Len(sessions)
  /\ ~stale[sid]
  /\ sessionTable[sessions[sid].conntrackID] = sid
  /\ \A w \in Workers : pc[w] \in {"collect", "returned"} => sess[w] # sid
  /\ stale' = [stale EXCEPT ![sid] = TRUE]
  /\ UNCHANGED <<sessionTable, sessions, conntrackTable, dispatched, released,
                 kct, bypassFlag, request, geo, logging, dict, pc, locals, loopvars, task,
                 verdict, crashed, events, lastCtid>>

\* The reaper's visit to the entry of ctid c, under the table's lock: a
\* session whose last activity is older than the threshold is removed and
\* its dictionary entry deleted.
Reap(c) ==
  /\ crashed = "no"
  /\ sessionTable[c] # 0
  /\ stale[sessionTable[c]]
  /\ sessionTable' = removeFromSessionTable(sessionTable, sessions[sessionTable[c]])
  /\ dict' = DeleteSession(dict, c)
  /\ UNCHANGED <<sessions, conntrackTable, dispatched, released, outside, pc,
                 locals, loopvars, task, verdict, crashed, events, lastCtid>>

\* The dispatcher and the reaper side by side.
ReapNext ==
  \/ \E w \in Workers : ReapPacket(w)
  \/ \E w \in Workers :
       \/ FindSession(w)
       \/ AfterFindSession(w)
       \/ Advance(w)
       \/ Done(w)
       \/ \E o \in Owners :
            \/ HandlerInvoke(w, o)
            \/ Timeout(w, o)
            \/ Collect(w, o)
            \/ \E rel \in BOOLEAN : HandlerReturn(w, o, rel)
  \/ \E sid \in 1..MaxEvents : Age(sid)
  \/ \E c \in Ctids : Reap(c)

ReapSpec == Init /\ [][ReapNext]_vars

\* ------------------------------------------------------------ geoip plugin
\* Packets between private, link-local, unique-local and public addresses.
ShapeLocal6 ==
  [layer |-> "ip6", family |-> AfInet6, proto |-> ProtoUDP,
   src |-> "fe80::1", sport |-> 5353, dst |-> "fd00::1", dport |-> 53,
   length |-> 80]
ShapeEdge4 ==
  [layer |-> "ip4", family |-> AfInet, proto |-> ProtoTCP,
   src |-> "172.16.0.9", sport |-> 54321, dst |-> "172.32.0.9", dport |-> 443,
   length |-> 60]
GeoShapes == {ShapeA, ShapeB, ShapeLocal6, ShapeEdge4}

\* First and later packets of flows between these addresses.
GeoPacket(w) ==
  /\ Ready(w)
  /\ \E c \in Ctids, sh \in GeoShapes,
        mk \in {Mark(0, 2), Mark(NewFlowBit + IfaceTypeUnit, 2)} :
       Enqueue(w, sh @@ [ctid |-> c, pmark |-> mk])
  /\ UNCHANGED dict

\* A mutex that anybody may take at any time.
lockAnyway(mutex) == TRUE

\* sync.Mutex.Lock returns when the mutex is free.
lockable(mutex) == mutex = <<>>

\* PluginNfqueueHandler up to geoMutex.Lock(): the release, and the return
\* for a packet that is not new.
GeoEnter(w) ==
  /\ crashed = "no"
  /\ task[w][pluginName] = "spawned"
  /\ sessions' = ReleaseSession(sessions, dict, sess[w], pluginName).sessions
  /\ dict' = ReleaseSession(sessions, dict, sess[w], pluginName).dict
  /\ task' = [task EXCEPT ![w][pluginName] =
                IF newFlag[w] THEN "entered" ELSE "returnedF"]
  /\ UNCHANGED <<sessionTable, conntrackTable, dispatched, released, outside,
                 pc, locals, loopvars, verdict, crashed, events, lastCtid>>

\* geoMutex.Lock()
GeoLock(w) ==
  /\ crashed = "no"
  /\ task[w][pluginName] = "entered"
  /\ lockable(geoMutex)
  /\ geoMutex' = <<w>>
  /\ task' = [task EXCEPT ![w][pluginName] = "locked"]
  /\ UNCHANGED <<sessionTable, sessions, conntrackTable, dispatched, released,
                 kct, stale, bypassFlag, request, geoDatabase, geoControl,
                 logging, dict, pc, locals, loopvars, verdict, crashed,
                 events, lastCtid>>

\* The lookups and the writes.
GeoLookup(w) ==
  /\ crashed = "no"
  /\ task[w][pluginName] = "locked"
  /\ sessions' = lookup(geoDatabase, sessions, dict, sess[w], mess[w]).sessions
  /\ dict' = lookup(geoDatabase, sessions, dict, sess[w], mess[w]).dict
  /\ task' = [task EXCEPT ![w][pluginName] = "looked"]
  /\ UNCHANGED <<sessionTable, conntrackTable, dispatched, released, outside,
                 pc, locals, loopvars, verdict, crashed, events, lastCtid>>

\* The return, with the deferred geoMutex.Unlock().
GeoUnlock(w) ==
  /\ crashed = "no"
  /\ task[w][pluginName] = "looked"
  /\ geoMutex' = IF geoMutex = <<w>> THEN <<>> ELSE geoMutex
  /\ task' = [task EXCEPT ![w][pluginName] = "returnedF"]
  /\ UNCHANGED <<sessionTable, sessions, conntrackTable, dispatched, released,
                 kct, stale, bypassFlag, request, geoDatabase, geoControl,
                 logging, dict, pc, locals, loopvars, verdict, crashed,
                 events, lastCtid>>

\* What the plugin's control calls leave alone.
dispatcher ==
  <<sessionTable, sessions, conntrackTable, dispatched, released, kct, stale,
    bypassFlag, request, dict, pc, locals, loopvars, task, verdict, crashed,
    logging, events, lastCtid>>

\* PluginStartup: geoMutex.Lock()
StartupLock ==
  /\ crashed = "no"
  /\ geoControl = "down"
  /\ lockable(geoMutex)
  /\ geoMutex' = <<"startup">>
  /\ geoControl' = "starting"
  /\ UNCHANGED <<geoDatabase, dispatcher>>

\* PluginStartup: geoip2.Open succeeds or fails; the deferred unlock.
StartupOpen(ok) ==
  /\ crashed = "no"
  /\ geoControl = "starting"
  /\ geoDatabase' = IF ok THEN "open" ELSE geoDatabase
  /\ geoMutex' = <<>>
  /\ geoControl' = "up"
  /\ UNCHANGED dispatcher

\* PluginShutdown: geoMutex.Lock()
ShutdownLock ==
  /\ crashed = "no"
  /\ geoControl = "up"
  /\ lockable(geoMutex)
  /\ geoMutex' = <<"shutdown">>
  /\ geoControl' = "stopping"
  /\ UNCHANGED <<geoDatabase, dispatcher>>

\* PluginShutdown: geoDatabase.Close() if there is a database, else return.
ShutdownClose ==
  /\ crashed = "no"
  /\ geoControl = "stopping"
  /\ IF geoDatabase # "nil"
     THEN /\ geoDatabase' = "closed"
          /\ geoControl' = "closing"
          /\ UNCHANGED geoMutex
     ELSE /\ geoControl' = "down"
          /\ geoMutex' = <<>>
          /\ UNCHANGED geoDatabase
  /\ UNCHANGED dispatcher

\* PluginShutdown: geoDatabase = nil; the deferred unlock.
ShutdownNil ==
  /\ crashed = "no"
  /\ geoControl = "closing"
  /\ geoDatabase' = "nil"
  /\ geoMutex' = <<>>
  /\ geoControl' = "down"
  /\ UNCHANGED dispatcher

\* The plugin started with or without a database.
GeoInit ==
  /\ sessionTable = [c \in Ctids |-> 0]
  /\ sessions = <<>>
  /\ conntrackTable = [c \in Ctids |-> NoConntrack]
  /\ dict = [c \in Ctids |-> EmptyEntry]
  /\ pc = [w \in Workers |-> "idle"]
  /\ mess = [w \in Workers |-> NoMess]
  /\ sess = [w \in Workers |-> 0]
  /\ newFlag = [w \in Workers |-> FALSE]
  /\ sublist = [w \in Workers |-> {}]
  /\ subcount = [w \in Workers |-> 0]
  /\ priority = [w \in Workers |-> 0]
  /\ hitcount = [w \in Workers |-> 0]
  /\ nread = [w \in Workers |-> 0]
  /\ task = [w \in Workers |-> NoTasks]
  /\ verdict = [w \in Workers |-> <<>>]
  /\ crashed = "no"
  /\ path = [w \in Workers |-> "none"]
  /\ dispatched = <<>>
  /\ released = <<>>
  /\ barred = [w \in Workers |-> {}]
  /\ kct = [c \in Ctids |-> NoKct]
  /\ stale = <<>>
  /\ bypassFlag = FALSE
  /\ request = NoRequest
  /\ geoDatabase \in {"open", "nil"}
  /\ geoMutex = <<>>
  /\ geoControl = "up"
  /\ LoggerStarted(DefaultConfig)
  /\ events = 0
  /\ lastCtid = 0

\* The dispatcher up to the end of the geoip tier, with the geoip handler
\* step by step, and the plugin's shutdown and restart at any time.
GeoNext ==
  \/ \E w \in Workers : GeoPacket(w)
  \/ \E w \in Workers :
       \/ NfqueueCallback(w)
       \/ Advance(w)
       \/ GeoEnter(w)
       \/ GeoLock(w)
       \/ GeoLookup(w)
       \/ GeoUnlock(w)
       \/ Collect(w, pluginName)
  \/ StartupLock
  \/ \E ok \in BOOLEAN : StartupOpen(ok)
  \/ ShutdownLock
  \/ ShutdownClose
  \/ ShutdownNil

GeoSpec == GeoInit /\ [][GeoNext]_vars

\* ------------------------------------------------------------------ logger
\* Strings the logger works on character by character are sequences of
\* code points.
MinInt32 == 0 - 2147483647 - 1
MaxInt32 == 2147483647

UNDEFINED_ == <<85, 78, 68, 69, 70, 73, 78, 69, 68>>

\* var logLevelName = [...]string{"EMERG", ..., "TRACE"}
logLevelName ==
  << <<69, 77, 69, 82, 71>>, <<65, 76, 69, 82, 84>>, <<67, 82, 73, 84>>,
     <<69, 82, 82, 79, 82>>, <<87, 65, 82, 78>>, <<78, 79, 84, 73, 67, 69>>,
     <<73, 78, 70, 79>>, <<68, 69, 66, 85, 71>>, <<84, 82, 65, 67, 69>> >>

\* The digits of a number that is not negative.
RECURSIVE digits(_)
digits(n) ==
  IF n < 10 THEN <<48 + n>> ELSE digits(n \div 10) \o <<48 + (n % 10)>>

\* fmt.Sprintf("%d", n)
decimal(n) ==
  IF n >= 0 THEN digits(n)
  ELSE IF n = MinInt32 THEN <<45>> \o digits(214748364) \o <<56>>
  ELSE <<45>> \o digits(0 - n)

\* unicode.ToUpper on the code points the model draws: the ASCII letters,
\* the long s and the dotless i.
toUpperRune(r) ==
  IF r >= 97 /\ r <= 122 THEN r - 32
  ELSE IF r = 383 THEN 83
  ELSE IF r = 305 THEN 73
  ELSE r

\* strings.ToUpper
ToUpper(str) == [i \in 1..Len(str) |-> toUpperRune(str[i])]

\* A Go value that did not panic, and the panic of an index out of range.
Returned(v) == [panic |-> FALSE, value |-> v]
Panicked == [panic |-> TRUE]

\* An array read the way Go does it: a panic outside 0..len-1.
index(array, i) ==
  IF i >= 0 /\ i < Len(array) THEN Returned(array[i + 1]) ELSE Panicked

\* FindLogLevelName
FindLogLevelName(level) ==
  IF level < 0 THEN Returned(UNDEFINED_)
  ELSE IF level > Len(logLevelName) THEN Returned(decimal(level))
  ELSE index(logLevelName, level)

\* FindLogLevelValue: the index of the first name that matches, else -1.
FindLogLevelValue(source) ==
  LET hits == {i \in 1..Len(logLevelName) :
                 ToUpper(logLevelName[i]) = ToUpper(source)}
  IN  IF hits = {} THEN 0 - 1
      ELSE (CHOOSE i \in hits : \A j \in hits : i <= j) - 1

\* GetLogLevel: the function's level if the map has it, else the
\* package's, else INFO.
GetLogLevel(map, cells, packageName, functionName) ==
  IF functionName # "" /\ functionName \in DOMAIN map
  THEN cells[map[functionName]]
  ELSE IF packageName # "" /\ packageName \in DOMAIN map
  THEN cells[map[packageName]]
  ELSE LogLevelInfo

\* IsLogEnabledSource
IsLogEnabledSource(map, cells, level, source) ==
  GetLogLevel(map, cells, source, "") >= level

\* IsLogEnabled for a caller in package packageName, function functionName.
IsLogEnabled(map, cells, packageName, functionName, level) ==
  \/ IsLogEnabledSource(map, cells, level, packageName)
  \/ IsLogEnabledSource(map, cells, level, functionName)

\* SearchSourceLogLevel
SearchSourceLogLevel(map, cells, source) ==
  IF source \in DOMAIN map THEN cells[map[source]] ELSE 0 - 1

\* What the logger's calls leave alone.
packetd ==
  <<sessionTable, sessions, conntrackTable, dispatched, released, kct, stale,
    bypassFlag, request, geo, dict, pc, locals, loopvars, task, verdict,
    crashed, events, lastCtid>>

\* The call of a function of the logger that has just returned.
Call(op, level, name, result) ==
  [op |-> op, level |-> level, name |-> name, result |-> result]

\* strings.ToLower of a name in capital ASCII letters.
lowered(str) == [i \in 1..Len(str) |-> str[i] + 32]

\* The levels FindLogLevelName is called with: around the defined ones,
\* some larger ones and the ends of int32.
NameLevels == ((0 - 8)..40) \cup {100, 1000, MinInt32, MaxInt32}

\* The names FindLogLevelValue is called with: the level names in capital
\* and in small letters, and names of no level.
LevelNames ==
  {logLevelName[i] : i \in 1..Len(logLevelName)}
    \cup {lowered(logLevelName[i]) : i \in 1..Len(logLevelName)}
    \cup {UNDEFINED_, <<57>>, <<105, 110, 383, 111>>, <<>>}

\* A call of FindLogLevelName.
FindLogLevelNameCall(level) ==
  /\ logCall' = Call("FindLogLevelName", <<level>>, <<>>,
                     FindLogLevelName(level))
  /\ UNCHANGED <<packetd, logLevelMap, levelCells, counters, logThread,
                 known, tainted>>

\* A call of FindLogLevelValue.
FindLogLevelValueCall(name) ==
  /\ logCall' = Call("FindLogLevelValue", <<>>, name,
                     Returned(FindLogLevelValue(name)))
  /\ UNCHANGED <<packetd, logLevelMap, levelCells, counters, logThread,
                 known, tainted>>

\* FindLogLevelValue called with the name FindLogLevelName just returned.
FindLogLevelValueOfName ==
  /\ logCall.op = "FindLogLevelName"
  /\ ~logCall.result.panic
  /\ logCall' = Call("FindLogLevelValue", logCall.level, logCall.result.value,
                     Returned(FindLogLevelValue(logCall.result.value)))
  /\ UNCHANGED <<packetd, logLevelMap, levelCells, counters, logThread,
                 known, tainted>>

NameNext ==
  \/ \E level \in NameLevels : FindLogLevelNameCall(level)
  \/ \E name \in LevelNames : FindLogLevelValueCall(name)
  \/ FindLogLevelValueOfName

\* The two conversions between level numbers and level names, called with
\* any of the levels and names above.
NameSpec == Init /\ [][NameNext]_vars

\* The caller findCallingFunction finds for the dispatcher's messages.
packageName == "dispatch"
functionName == "dispatch.nfqueueCallback"

\* LogMessage's first test: the message is dropped.
suppressed(map, cells, level) ==
  level > GetLogLevel(map, cells, packageName, functionName)

\* The configurations the logger may start with: any of the sources at
\* ERROR, or without an entry.
Configs == UNION {[srcs -> {LogLevelErr}] : srcs \in SUBSET Sources}

\* The levels AdjustSourceLogLevel is called with.
AdjustLevels == {0 - 1, LogLevelDebug}

\* The levels the callers ask IsLogEnabled about.
CallLevels == {LogLevelErr, LogLevelInfo, LogLevelDebug}

\* The cells some pointer still leads to, from the map or from a goroutine
\* inside AdjustSourceLogLevel; the garbage collector frees the others.
live(map, threads, cells) ==
  LET held == {map[s] : s \in DOMAIN map}
                \cup {threads[v].ptr : v \in {u \in Workers :
                                                 threads[u].pc # "idle"}}
  IN  [p \in DOMAIN cells \cap held |-> cells[p]]

\* new(int32): a cell no pointer leads to yet, named by the source it is
\* made for and the first number free.
newCell(cells, source) ==
  <<source, CHOOSE k \in 1..(NumWorkers + 1) :
              /\ <<source, k>> \notin DOMAIN cells
              /\ \A j \in 1..(k - 1) : <<source, j>> \in DOMAIN cells>>

\* Goroutine v is inside AdjustSourceLogLevel for this source.
adjusting(v, source) ==
  logThread[v].pc # "idle" /\ logThread[v].source = source

\* AdjustSourceLogLevel, the read of the map under the read lock.
AdjustLookup(w, source, level) ==
  /\ logThread[w].pc = "idle"
  /\ LET stat == source \in DOMAIN logLevelMap
         busy == \E v \in Workers \ {w} : adjusting(v, source)
     IN  /\ logThread' =
              [v \in Workers |->
                 IF v = w
                 THEN [pc |-> IF stat THEN "found" ELSE "missing",
                       source |-> source, level |-> level, stat |-> stat,
                       ptr |-> IF stat THEN logLevelMap[source] ELSE <<>>,
                       prelvl |-> 0, alone |-> ~busy,
                       before |-> SearchSourceLogLevel(logLevelMap,
                                                       levelCells, source)]
                 ELSE IF adjusting(v, source)
                 THEN [logThread[v] EXCEPT !.alone = FALSE]
                 ELSE logThread[v]]
         /\ tainted' = IF level < 0 \/ busy THEN tainted \cup {source}
                       ELSE tainted
  /\ UNCHANGED <<packetd, logLevelMap, levelCells, counters, logCall, known>>

\* AdjustSourceLogLevel, stat == false: the new cell holds -1 and enters
\* the map under the write lock.
AdjustInsert(w) ==
  /\ logThread[w].pc = "missing"
  /\ LET ptr == newCell(levelCells, logThread[w].source)
     IN  /\ logLevelMap' = (logThread[w].source :> ptr) @@ logLevelMap
         /\ logThread' = [logThread EXCEPT ![w].pc = "found", ![w].ptr = ptr]
         /\ levelCells' = live(logLevelMap', logThread',
                               (ptr :> (0 - 1)) @@ levelCells)
  /\ UNCHANGED <<packetd, counters, logCall, known, tainted>>

\* AdjustSourceLogLevel: prelvl := atomic.LoadInt32(ptr)
AdjustLoad(w) ==
  /\ logThread[w].pc = "found"
  /\ logThread' = [logThread EXCEPT ![w].pc = "loaded",
                                    ![w].prelvl = levelCells[logThread[w].ptr]]
  /\ UNCHANGED <<packetd, logLevelMap, levelCells, counters, logCall, known,
                 tainted>>

kept(level, prelvl) == prelvl

\* The value AdjustSourceLogLevel stores in the cell.
stored(level, prelvl) == level

\* AdjustSourceLogLevel: atomic.StoreInt32(ptr, level); return prelvl
AdjustStore(w) ==
  /\ logThread[w].pc = "loaded"
  /\ logThread' = [logThread EXCEPT ![w] = IdleThread]
  /\ levelCells' =
       live(logLevelMap, logThread',
            [levelCells EXCEPT ![logThread[w].ptr] =
               stored(logThread[w].level, logThread[w].prelvl)])
  /\ logCall' = Call("AdjustSourceLogLevel", <<logThread[w].level>>,
                     logThread[w].source, Returned(logThread[w].prelvl))
  /\ known' = known \cup {logThread[w].source}
  /\ UNCHANGED <<packetd, logLevelMap, counters, tainted>>

\* A call of SearchSourceLogLevel.
SearchCall(source) ==
  /\ logCall' = Call("SearchSourceLogLevel", <<>>, source,
                     Returned(SearchSourceLogLevel(logLevelMap, levelCells,
                                                   source)))
  /\ UNCHANGED <<packetd, logLevelMap, levelCells, counters, logThread,
                 known, tainted>>

\* A call of IsLogEnabled from the dispatcher's callback.
IsLogEnabledCall(level) ==
  /\ logCall' = Call("IsLogEnabled", <<level>>, <<>>,
                     Returned(IsLogEnabled(logLevelMap, levelCells,
                                           packageName, functionName, level)))
  /\ UNCHANGED <<packetd, logLevelMap, levelCells, counters, logThread,
                 known, tainted>>

\* The logger started with any configuration.
LevelInit ==
  /\ sessionTable = [c \in Ctids |-> 0]
  /\ sessions = <<>>
  /\ conntrackTable = [c \in Ctids |-> NoConntrack]
  /\ dict = [c \in Ctids |-> EmptyEntry]
  /\ pc = [w \in Workers |-> "idle"]
  /\ mess = [w \in Workers |-> NoMess]
  /\ sess = [w \in Workers |-> 0]
  /\ newFlag = [w \in Workers |-> FALSE]
  /\ sublist = [w \in Workers |-> {}]
  /\ subcount = [w \in Workers |-> 0]
  /\ priority = [w \in Workers |-> 0]
  /\ hitcount = [w \in Workers |-> 0]
  /\ nread = [w \in Workers |-> 0]
  /\ task = [w \in Workers |-> NoTasks]
  /\ verdict = [w \in Workers |-> <<>>]
  /\ crashed = "no"
  /\ path = [w \in Workers |-> "none"]
  /\ dispatched = <<>>
  /\ released = <<>>
  /\ barred = [w \in Workers |-> {}]
  /\ kct = [c \in Ctids |-> NoKct]
  /\ stale = <<>>
  /\ bypassFlag = FALSE
  /\ request = NoRequest
  /\ geoDatabase = "open"
  /\ geoMutex = <<>>
  /\ geoControl = "up"
  /\ \E config \in Configs : LoggerStarted(config)
  /\ events = 0
  /\ lastCtid = 0

LevelNext ==
  \/ \E w \in Workers :
       \/ \E source \in Sources, level \in AdjustLevels :
            AdjustLookup(w, source, level)
       \/ AdjustInsert(w)
       \/ AdjustLoad(w)
       \/ AdjustStore(w)
  \/ \E source \in Sources : SearchCall(source)
  \/ \E level \in CallLevels : IsLogEnabledCall(level)

\* The log levels of the sources: adjusted by two goroutines step by step,
\* and read by SearchSourceLogLevel and IsLogEnabled at any time.
LevelSpec == LevelInit /\ [][LevelNext]_vars

\* ------------------------------------------------------ counted log messages
MaxTotal == 4

\* "%OC|"
OCVerb == <<37, 79, 67, 124>>

\* "ERROR: LogFormatter OC verb missing arguments:"
MissingArguments ==
  <<69, 82, 82, 79, 82, 58, 32, 76, 111, 103, 70, 111, 114, 109, 97, 116,
    116, 101, 114, 32, 79, 67, 32, 118, 101, 114, 98, 32, 109, 105, 115,
    115, 105, 110, 103, 32, 97, 114, 103, 117, 109, 101, 110, 116, 115, 58>>

\* "ERROR: LogFormatter OC verb args[0] not string:"
NotString ==
  <<69, 82, 82, 79, 82, 58, 32, 76, 111, 103, 70, 111, 114, 109, 97, 116,
    116, 101, 114, 32, 79, 67, 32, 118, 101, 114, 98, 32, 97, 114, 103,
    115, 91, 48, 93, 32, 110, 111, 116, 32, 115, 116, 114, 105, 110, 103,
    58>>

\* "ERROR: LogFormatter OC verb args[1] not int:"
NotInt ==
  <<69, 82, 82, 79, 82, 58, 32, 76, 111, 103, 70, 111, 114, 109, 97, 116,
    116, 101, 114, 32, 79, 67, 32, 118, 101, 114, 98, 32, 97, 114, 103,
    115, 91, 49, 93, 32, 110, 111, 116, 32, 105, 110, 116, 58>>

\* Arguments of the Go types string, int and int32.
GoString(v) == [type |-> "string", val |-> v]
GoInt(v) == [type |-> "int", val |-> v]
GoInt32(v) == [type |-> "int32", val |-> v]

\* strings.HasPrefix
HasPrefix(str, prefix) ==
  Len(str) >= Len(prefix) /\ SubSeq(str, 1, Len(prefix)) = prefix

\* format[4:]
afterVerb(format) == SubSeq(format, Len(OCVerb) + 1, Len(format))

\* fmt.Sprintf for the formats the model draws: text with %d verbs, each
\* with an int argument of its own.
RECURSIVE Sprintf(_, _)
Sprintf(format, args) ==
  IF format = <<>> THEN <<>>
  ELSE IF Len(format) >= 2 /\ format[1] = 37 /\ format[2] = 100
          /\ args # <<>>
  THEN decimal(Head(args).val)
         \o Sprintf(SubSeq(format, 3, Len(format)), Tail(args))
  ELSE <<Head(format)>> \o Sprintf(Tail(format), args)

\* overseer.AddCounter: adds to the named counter and returns its new total.
AddCounter(cnt, name, amount) ==
  [counters |-> [cnt EXCEPT ![name] = @ + amount],
   total |-> cnt[name] + amount]

\* total % uint64(limit) for a limit that is not zero: a negative int
\* converts to 2^64 + limit, which is above every total, so that the
\* remainder is the total itself.
remainder(total, limit) == IF limit > 0 THEN total % limit ELSE total

dueAlways(total, limit) == TRUE

\* total == 1 || limit == 0 || (total%limit) == 0
due(total, limit) ==
  total = 1 \/ limit = 0 \/ remainder(total, limit) = 0

\* LogFormatter: the counters afterwards and the string returned.
LogFormatter(cnt, format, args) ==
  IF HasPrefix(format, OCVerb)
  THEN IF Len(args) < 2
       THEN [counters |-> cnt, text |-> MissingArguments \o format]
       ELSE IF args[1].type # "string"
       THEN [counters |-> cnt, text |-> NotString \o format]
       ELSE IF args[2].type # "int"
       THEN [counters |-> cnt, text |-> NotInt \o format]
       ELSE LET added == AddCounter(cnt, args[1].val, 1)
            IN  [counters |-> added.counters,
                 text |->
                   IF due(added.total, args[2].val)
                   THEN IF Len(args) = 2 THEN afterVerb(format)
                        ELSE Sprintf(afterVerb(format),
                                     SubSeq(args, 3, Len(args)))
                   ELSE <<>>]
  ELSE [counters |-> cnt, text |-> Sprintf(format, args)]

\* LogMessage from the dispatcher's callback: the counters afterwards and
\* what is printed after the line's prefix, <<>> when nothing is printed.
LogMessage(map, cells, cnt, level, format, args) ==
  IF suppressed(map, cells, level)
  THEN [counters |-> cnt, printed |-> <<>>]
  ELSE IF Len(args) = 0
  THEN [counters |-> cnt, printed |-> <<format>>]
  ELSE LET r == LogFormatter(cnt, format, args)
       IN  [counters |-> r.counters,
            printed |-> IF Len(r.text) = 0 THEN <<>> ELSE <<r.text>>]

\* The limits of the counted messages.
Limits == {0 - 2, 0, 1, 2, 3}

\* "late", "n=%d", and both after the verb; the verb alone.
Late == <<108, 97, 116, 101>>
Number == <<110, 61, 37, 100>>

\* The calls the model draws: counted messages with and without further
\* arguments, for each counter and limit; the verb with nothing after it;
\* calls with too few arguments, a name that is no string, a limit that is
\* no int; and a message without the verb.
FormatterCalls ==
  {<<OCVerb \o Late, <<GoString(n), GoInt(l)>>>> :
     n \in CounterNames, l \in Limits}
    \cup {<<OCVerb \o Number, <<GoString(n), GoInt(l), GoInt(7)>>>> :
            n \in CounterNames, l \in Limits}
    \cup {<<OCVerb, <<GoString(n), GoInt(0)>>>> : n \in CounterNames}
    \cup {<<OCVerb \o Late, <<>>>>,
          <<OCVerb \o Late, <<GoString("conntrack_id_mismatch")>>>>,
          <<OCVerb \o Late, <<GoInt(1), GoInt(2)>>>>,
          <<OCVerb \o Late, <<GoString("conntrack_id_mismatch"), GoInt32(2)>>>>,
          <<OCVerb \o Late,
            <<GoString("conntrack_id_mismatch"), GoString("2")>>>>,
          <<Number, <<GoInt(7)>>>>}

\* The call is a counted message with valid arguments.
counted(format, args) ==
  /\ HasPrefix(format, OCVerb)
  /\ Len(args) >= 2
  /\ args[1].type = "string"
  /\ args[2].type = "int"

\* The counters stay within the model's bound.
room(format, args) ==
  counted(format, args) => counters[args[1].val] < MaxTotal

\* A call of LogFormatter.
LogFormatterCall(format, args) ==
  /\ room(format, args)
  /\ LET r == LogFormatter(counters, format, args)
     IN  /\ counters' = r.counters
         /\ logCall' = Call("LogFormatter", <<>>, <<format, args>>,
                            Returned(r.text))
  /\ UNCHANGED <<packetd, logLevelMap, levelCells, logThread, known, tainted>>

\* A call of LogMessage from the dispatcher's callback.
LogMessageCall(level, format, args) ==
  /\ room(format, args)
  /\ LET r == LogMessage(logLevelMap, levelCells, counters, level, format,
                         args)
     IN  /\ counters' = r.counters
         /\ logCall' = Call("LogMessage", <<level>>, <<format, args>>,
                            Returned(r.printed))
  /\ UNCHANGED <<packetd, logLevelMap, levelCells, logThread, known, tainted>>

LogNext ==
  \E call \in FormatterCalls :
    \/ LogFormatterCall(call[1], call[2])
    \/ \E level \in {LogLevelErr, LogLevelDebug} :
         LogMessageCall(level, call[1], call[2])

\* Messages through LogFormatter and LogMessage in any order, under the
\* configuration the logger writes by default.
LogSpec == Init /\ [][LogNext]_vars

\* ------------------------------------------------------------------- claims
\* The callback has run on thread w in this step.
callbackStep(w) == pc[w] = "queued" /\ pc'[w] \notin {"queued", "dead"}

\* C1: whenever nfqueueCallback has returned a verdict for a packet, the
\* verdict is NfAccept; it is never NfDrop.
C1_VerdictIsAccept ==
  \A w \in Workers :
    verdict[w] # <<>> => verdict[w] = <<NfAccept>> /\ verdict[w] # <<NfDrop>>

C1_Witness ==
  \E w, v \in Workers :
    /\ pc[w] = "returned" /\ path[w] = "midflow" /\ verdict[w] # <<>>
    /\ pc[v] = "returned" /\ path[v] = "created" /\ verdict[v] # <<>>

\* C2, as the code has it: for every IPv4 or IPv6 packet with no loopback
\* address, no session under its ctid and the new-flow bit unset, the callback
\* returns accept and leaves sessions[ctid].bypass_packetd = true.
C2_MidFlowBypass ==
  [][\A w \in Workers :
       (/\ callbackStep(w)
        /\ ~unparsed(mess[w])
        /\ ~loopback(mess[w])
        /\ midFlow(sessionTable, mess[w]))
       => /\ pc'[w] = "returned"
          /\ verdict'[w] = <<NfAccept>>
          /\ bypassed(dict', mess[w].ctid)]_vars

C2_Witness ==
  \E w \in Workers :
    /\ pc[w] = "returned"
    /\ path[w] = "midflow"
    /\ verdict[w] = <<NfAccept>>
    /\ bypassed(dict, mess[w].ctid)

\* C2, as stated: for every packet with no session under its ctid and the
\* new-flow bit unset, the callback returns accept and leaves
\* sessions[ctid].bypass_packetd = true.
C2_AnyPacketBypass ==
  [][\A w \in Workers :
       (callbackStep(w) /\ midFlow(sessionTable, mess[w]))
       => /\ pc'[w] = "returned"
          /\ verdict'[w] = <<NfAccept>>
          /\ bypassed(dict', mess[w].ctid)]_vars

\* C3: the packet count of every session equals the number of packets the
\* dispatcher has processed for it, 1 after the packet that created it.
C3_PacketCount ==
  \A i \in 1..Len(sessions) : sessions[i].packetCount = dispatched[i]

\* C4: at most one session of the table has conntrack id c, and the session
\* stored under key c has conntrack id c.
C4_OneSessionPerCtid ==
  \A c \in Ctids :
    /\ sessionTable[c] # 0 => sessions[sessionTable[c]].conntrackID = c
    /\ Cardinality({k \in Ctids :
                      /\ sessionTable[k] # 0
                      /\ sessions[sessionTable[k]].conntrackID = c}) <= 1

C4_Witness ==
  \E w \in Workers :
    /\ path[w] = "reuse"
    /\ Len(sessions) = 2
    /\ sessionTable[mess[w].ctid] = sess[w]
    /\ sessions[1].conntrackID = sessions[2].conntrackID

\* C5: sessions[c].bypass_packetd = true in the dictionary implies that the
\* session table holds no session for c or one without subscriptions.
C5_BypassMeansNoSubscribers ==
  \A c \in Ctids :
    bypassed(dict, c) =>
      \/ sessionTable[c] = 0
      \/ sessions[sessionTable[c]].subscriptions = {}

\* C6: a snapshot plugin has been invoked only if every snapshot plugin of
\* lower priority has returned or had its watchdog fire; plugins of one
\* priority may run together.
C6_PriorityOrder ==
  \A w \in Workers :
    \A p \in sublist[w], q \in sublist[w] :
      (p.Priority < q.Priority /\ invoked(task[w][q.Owner]))
      => finished(task[w][p.Owner])

C6_Witness ==
  \E w \in Workers :
    /\ task[w]["geoip"] = "delivered"
    /\ task[w]["dns"] = "running"
    /\ task[w]["sni"] = "running"

\* C7: once the watchdog of a plugin has fired, the dispatcher removes that
\* plugin's subscription from the session, gets through the remaining
\* priorities and returns accept for the packet.
C7_TimeoutReleases ==
  \A w \in Workers, o \in Owners :
    (task[w][o] \in {"zspawned", "zombie"})
    ~> (/\ pc[w] = "returned"
        /\ verdict[w] = <<NfAccept>>
        /\ sess[w] # 0
        /\ o \notin {s.Owner : s \in sessions[sess[w]].subscriptions})

\* C8: callSubscribers eventually returns for every packet, whether or not
\* the handlers return.
C8_CallSubscribersReturns ==
  \A w \in Workers : (pc[w] = "collect") ~> (pc[w] = "returned")

\* C9: a panic of a plugin handler does not take the dispatcher down.
C9_PanicDoesNotCrash == crashed # "plugin_panic"

\* C10: a new-flow packet for a ctid whose session has another tuple: the old
\* session leaves the table, a session with a new id, the packet's tuple, the
\* ctid and a fresh subscription list takes the ctid, and sessions[ctid] of
\* the dictionary is left as it was.
C10_CtidReuse ==
  [][\A w \in Workers :
       LET c == mess[w].ctid
           s1 == sessionTable[c]
           s2 == sessionTable'[c]
       IN (/\ callbackStep(w)
           /\ ~unparsed(mess[w])
           /\ ~loopback(mess[w])
           /\ newSessionBit(mess[w].pmark)
           /\ s1 # 0
           /\ ~TupleEqual(MsgTuple(mess[w]), sessions[s1].clientSideTuple))
          => /\ \A k \in Ctids : sessionTable'[k] # s1
             /\ s2 = Len(sessions) + 1
             /\ Len(sessions') = Len(sessions) + 1
             /\ sessions'[s2].sessionID = s2
             /\ sessions'[s2].clientSideTuple = MsgTuple(mess[w])
             /\ sessions'[s2].conntrackID = c
             /\ sessions'[s2].subscriptions = Registry
             /\ dict'[c] = dict[c]]_vars

C10_Witness ==
  \E w \in Workers :
    /\ path[w] = "reuse"
    /\ pc[w] = "collect"
    /\ bypassed(dict, mess[w].ctid)
    /\ sessionTable[mess[w].ctid] = Len(sessions)

\* C11: a packet with the new-flow bit for a ctid whose session has the
\* packet's tuple is handled as not-new: the session stays in the table with
\* its id and subscriptions, the new-flag passed on is false, the client
\* interface is not rewritten and no conntrack record is removed.
C11_RemarkIsNotNew ==
  [][\A w \in Workers :
       LET c == mess[w].ctid
           s1 == sessionTable[c]
       IN (/\ callbackStep(w)
           /\ ~unparsed(mess[w])
           /\ ~loopback(mess[w])
           /\ newSessionBit(mess[w].pmark)
           /\ s1 # 0
           /\ TupleEqual(MsgTuple(mess[w]), sessions[s1].clientSideTuple))
          => /\ sessionTable' = sessionTable
             /\ Len(sessions') = Len(sessions)
             /\ sess'[w] = s1
             /\ newFlag'[w] = FALSE
             /\ sessions'[s1].sessionID = sessions[s1].sessionID
             /\ sessions'[s1].subscriptions = sessions[s1].subscriptions
             /\ sessions'[s1].clientInterfaceID = sessions[s1].clientInterfaceID
             /\ sessions'[s1].clientInterfaceType =
                  sessions[s1].clientInterfaceType
             /\ conntrackTable' = conntrackTable]_vars

\* A re-marked packet whose mark names another interface than the session's,
\* while the conntrack record of the ctid is in the table.
C11_Witness ==
  \E w \in Workers :
    /\ path[w] = "remark"
    /\ pc[w] = "collect"
    /\ newFlag[w] = FALSE
    /\ sessions[sess[w]].clientInterfaceID # interfaceID(mess[w].pmark)
    /\ sessions[sess[w]].clientInterfaceType # interfaceType(mess[w].pmark)
    /\ conntrackTable[mess[w].ctid].present

\* C12: whenever a release takes a session's subscription set from non-empty
\* to empty, sessions[ctid].bypass_packetd = true is in the dictionary when
\* the release has returned, ctid being the session's conntrack id.
C12_LastReleaseWritesBypass ==
  [][\A i \in 1..Len(sessions) :
       (/\ i <= Len(sessions')
        /\ sessions[i].subscriptions # {}
        /\ sessions'[i].subscriptions = {})
       => bypassed(dict', sessions[i].conntrackID)]_vars

\* Two plugins of one tier have released the session, one through its result
\* and one by its own call, and the set is empty.
C12_Witness ==
  \E w \in Workers :
    /\ sess[w] # 0
    /\ sessions[sess[w]].subscriptions = {}
    /\ task[w]["dns"] = "delivered"
    /\ task[w]["sni"] = "running"
    /\ nread[w] < hitcount[w]
    /\ bypassed(dict, sessions[sess[w]].conntrackID)

\* C13: a packet of a session whose subscription snapshot is empty makes the
\* dispatcher write sessions[ctid].bypass_packetd = true, invoke no handler
\* and return accept.
C13_EmptySnapshotBypass ==
  [][\A w \in Workers :
       LET c == mess[w].ctid
           s1 == sessionTable[c]
       IN (/\ callbackStep(w)
           /\ ~unparsed(mess[w])
           /\ ~loopback(mess[w])
           /\ s1 # 0
           /\ newSessionBit(mess[w].pmark) =>
                TupleEqual(MsgTuple(mess[w]), sessions[s1].clientSideTuple)
           /\ sessions[s1].subscriptions = {})
          => /\ bypassed(dict', c)
             /\ pc'[w] = "returned"
             /\ verdict'[w] = <<NfAccept>>
             /\ task'[w] = NoTasks]_vars

\* The ruleset flushed the entry of a session without subscribers (the
\* countries written with the first packet are gone) and the next packet put
\* the bypass back.
C13_Witness ==
  \E w \in Workers :
    /\ pc[w] = "returned"
    /\ path[w] \in {"remark", "existing"}
    /\ sessions[sess[w]].subscriptions = {}
    /\ bypassed(dict, mess[w].ctid)
    /\ "client_country" \notin DOMAIN dict[mess[w].ctid]
    /\ task[w] = NoTasks

\* C14: a plugin whose handler returned session_release = true for a packet
\* of a session has left the session's subscriptions when the dispatcher reads
\* that result, which it does before it starts the next tier of the packet,
\* and the plugin is not invoked for any packet dispatched to that session
\* object afterwards.
C14_ReleasedPluginLeaves ==
  /\ [][\A w \in Workers, o \in Owners :
          /\ (task[w][o] = "returnedT" /\ task'[w][o] = "delivered")
               => o \notin {s.Owner : s \in sessions'[sess[w]].subscriptions}
          /\ (pc[w] = "collect" /\ priority'[w] > priority[w])
               => task[w][o] \notin {"spawned", "running", "returnedT",
                                     "returnedF"}]_vars
  /\ [](\A w \in Workers : \A o \in barred[w] : ~invoked(task[w][o]))

\* A later packet of a session that dns left through its result: sni, still
\* subscribed, runs for it and dns does not.
C14_Witness ==
  \E w \in Workers :
    /\ "dns" \in barred[w]
    /\ pc[w] = "collect"
    /\ priority[w] = 1
    /\ invoked(task[w]["sni"])
    /\ task[w]["dns"] = "none"

C16_NewSessionFields ==
  [][\A w \in Workers :
       (pc[w] = "queued" /\ path'[w] = "created")
         => /\ sess'[w] = Len(sessions) + 1
            /\ sessionTable'[mess[w].ctid] = sess'[w]
            /\ sessions'[sess'[w]].clientSideTuple.Protocol = mess[w].proto
            /\ sessions'[sess'[w]].clientSideTuple.ClientAddress = mess[w].src
            /\ sessions'[sess'[w]].clientSideTuple.ClientPort = mess[w].sport
            /\ sessions'[sess'[w]].clientSideTuple.ServerAddress = mess[w].dst
            /\ sessions'[sess'[w]].clientSideTuple.ServerPort = mess[w].dport
            /\ sessions'[sess'[w]].clientInterfaceID = mess[w].pmark.lo % 256
            /\ sessions'[sess'[w]].clientInterfaceType =
                 (mess[w].pmark.hi % 1024) \div 256
            /\ sessions'[sess'[w]].clientInterfaceType \in 0..3
            /\ sessions'[sess'[w]].conntrackConfirmed = FALSE
            /\ sessions'[sess'[w]].subscriptions = Registry]_vars

\* A session made from a mark with bits 28 and 31 set and interface type 3,
\* while another session exists.
C16_Witness ==
  \E w \in Workers :
    /\ path[w] = "created"
    /\ pc[w] = "collect"
    /\ sess[w] = 2
    /\ mess[w].pmark = Mark(BypassBit + NewFlowBit + 3 * IfaceTypeUnit, 1)
    /\ sessions[2].clientInterfaceType = 3
    /\ sessions[2].clientInterfaceID = 1

\* C17: the callback of an IPv4 or IPv6 packet that is not loopback, has the
\* new-flow bit unset and finds no session under its ctid creates no session,
\* starts no handler, leaves session table and conntrack table alone and
\* changes nothing in the dictionary but bypass_packetd of that ctid.
C17_MidFlowFrame ==
  [][\A w \in Workers :
       (/\ callbackStep(w)
        /\ mess[w].layer \in {"ip4", "ip6"}
        /\ ~IsLoopback(Octets(mess[w].src))
        /\ ~IsLoopback(Octets(mess[w].dst))
        /\ (mess[w].pmark.hi \div 4096) % 2 = 0
        /\ sessionTable[mess[w].ctid] = 0)
         => /\ sessions' = sessions
            /\ sessionTable' = sessionTable
            /\ conntrackTable' = conntrackTable
            /\ dispatched' = dispatched
            /\ task' = task
            /\ sess'[w] = 0
            /\ pc'[w] = "returned"
            /\ \A c \in Ctids \ {mess[w].ctid} : dict'[c] = dict[c]
            /\ DOMAIN dict'[mess[w].ctid] =
                 DOMAIN dict[mess[w].ctid] \cup {"bypass_packetd"}
            /\ \A f \in DOMAIN dict[mess[w].ctid] \ {"bypass_packetd"} :
                 dict'[mess[w].ctid][f] = dict[mess[w].ctid][f]
            /\ dict'[mess[w].ctid]["bypass_packetd"] = TRUE]_vars

\* A mid-flow packet has been answered while the session of another flow
\* stays in the table.
C17_Witness ==
  \E w \in Workers :
    /\ pc[w] = "returned"
    /\ path[w] = "midflow"
    /\ sessionTable[mess[w].ctid] = 0
    /\ bypassed(dict, mess[w].ctid)
    /\ Len(sessions) = 1
    /\ task[w] = NoTasks

\* C18: the callback of a packet without an IPv4 or IPv6 layer, or with a
\* loopback source or destination, returns accept and changes nothing: session
\* table, sessions (counters, subscriptions), conntrack table and dictionary
\* stay as they were and no handler is started, whatever the mark and whether
\* or not the ctid has a session.
C18_UnparsedLoopbackFrame ==
  [][\A w \in Workers :
       (/\ callbackStep(w)
        /\ \/ mess[w].layer \notin {"ip4", "ip6"}
           \/ mess[w].src \in {"127.0.0.1", "::1"}
           \/ mess[w].dst \in {"127.0.0.1", "::1"})
         => /\ sessions' = sessions
            /\ sessionTable' = sessionTable
            /\ conntrackTable' = conntrackTable
            /\ dict' = dict
            /\ dispatched' = dispatched
            /\ task' = task
            /\ sess'[w] = 0
            /\ pc'[w] = "returned"
            /\ verdict'[w] = <<NfAccept>>]_vars

\* A loopback packet with the new-flow bit and the ctid of a live session has
\* been answered.
C18_Witness ==
  \E w \in Workers :
    /\ pc[w] = "returned"
    /\ path[w] = "loopback"
    /\ newSessionBit(mess[w].pmark)
    /\ sessionTable[mess[w].ctid] = 1
    /\ sessions[1].packetCount = EstablishedSession({}).packetCount
    /\ verdict[w] = <<NfAccept>>

\* C19: the priority loop runs at most 100 iterations for a packet (the
\* iteration at priority p is the (p+1)th); the dispatcher aborts on the
\* priority constraint only if the snapshot holds a subscriber that 100
\* iterations do not reach, and it returns only if there is none.
C19_PriorityBound ==
  /\ [](\A w \in Workers : pc[w] = "collect" => priority[w] + 1 <= 100)
  /\ [][/\ (crashed = "no" /\ crashed' = "priority_constraint")
            => \E w \in Workers :
                 \/ pc[w] = "collect"
                      /\ \E s \in sublist[w] : s.Priority + 1 > 100
                 \/ pc[w] = "queued"
                      /\ \E s \in sessions[sessionTable[mess[w].ctid]].subscriptions :
                           s.Priority + 1 > 100
        /\ \A w \in Workers :
             (pc[w] = "collect" /\ pc'[w] = "returned")
               => \A s \in sublist[w] : s.Priority + 1 <= 100]_vars

\* C20: whichever of a flow's conntrack NEW event and first packet (new-flow
\* bit, same ctid, same client side tuple) is processed second leaves the
\* session in the session table and the record in the conntrack table, linked,
\* with the session conntrack confirmed.
C20_BothOrders ==
  [][/\ \A c \in Ctids :
          (/\ conntrackTable'[c] # conntrackTable[c]
           /\ conntrackTable'[c].present
           /\ sessionTable[c] # 0
           /\ TupleEqual(sessions[sessionTable[c]].clientSideTuple,
                         conntrackTable'[c].tuple))
            => /\ sessionTable'[c] = sessionTable[c]
               /\ conntrackTable'[c].session = sessionTable[c]
               /\ sessions'[sessionTable[c]].conntrackConfirmed
     /\ \A w \in Workers :
          (/\ callbackStep(w)
           /\ newSessionBit(mess[w].pmark)
           /\ ~unparsed(mess[w]) /\ ~loopback(mess[w])
           /\ sessionTable[mess[w].ctid] = 0
           /\ conntrackTable[mess[w].ctid].present
           /\ TupleEqual(conntrackTable[mess[w].ctid].tuple, MsgTuple(mess[w])))
            => /\ sessionTable'[mess[w].ctid] = sess'[w]
               /\ conntrackTable'[mess[w].ctid].present
               /\ conntrackTable'[mess[w].ctid].session = sess'[w]
               /\ sessions'[sess'[w]].conntrackConfirmed]_vars

\* C21: a second DESTROY for a ctid, processed right after the first, leaves
\* session table, conntrack table and dictionary as the first left them; and
\* a DESTROY for a ctid without session changes only that ctid's dictionary
\* entry, which it erases, and that ctid's conntrack record, which it removes.
C21_DestroyIdempotent ==
  [][\A c \in Ctids :
       ConntrackDestroy(c)
         => /\ destroy(sessionTable', sessions', conntrackTable', dict', c) =
                 [sessionTable |-> sessionTable',
                  conntrackTable |-> conntrackTable',
                  dict |-> dict']
            /\ sessions' = sessions
            /\ ~conntrackTable'[c].present
            /\ dict'[c] = <<>>
            /\ \A k \in Ctids \ {c} :
                 /\ dict'[k] = dict[k]
                 /\ conntrackTable'[k] = conntrackTable[k]
                 /\ sessionTable'[k] = sessionTable[k]
            /\ sessionTable[c] = 0 => sessionTable' = sessionTable]_vars

\* The established flow has been destroyed and a second event processed:
\* session, record and dictionary entry of its ctid are gone.
C21_Witness ==
  /\ events = 2
  /\ lastCtid = 1
  /\ \A w \in Workers : pc[w] = "idle"
  /\ dispatched = <<1>>
  /\ sessionTable[1] = 0
  /\ ~conntrackTable[1].present
  /\ dict[1] = <<>>

\* C22: whenever no packet is being processed, a bypass_packetd entry, the
\* one field the dispatcher itself writes under sessions[c], exists only if
\* the session table holds a session for c.
C22_EntryBoundedBySession ==
  (\A w \in Workers : pc[w] = "idle")
    => \A c \in Ctids :
         "bypass_packetd" \in DOMAIN dict[c] => sessionTable[c] # 0

\* C24: a packet is queued to userspace only if bit 0x80000000 of its
\* conntrack mark is clear and the dictionary, as the chain's flush for ct
\* state new leaves it, holds no bypass_packetd = true for its ct id; an entry
\* that stood when the packet entered the chain keeps the packet from the
\* queue unless the packet is in state new.
C24_BypassedNotQueued ==
  [][\A w \in Workers :
       (pc[w] = "idle" /\ pc'[w] = "queued")
         => /\ ~mess'[w].ctbypass
            /\ ~bypassed(dict', mess'[w].ctid)
            /\ bypassed(dict, mess'[w].ctid) => mess'[w].ctnew]_vars

\* C24 as stated: no packet is queued while its conntrack mark has bit
\* 0x80000000 set or the dictionary holds bypass_packetd = true for its ct id
\* when it enters the chain, whatever its conntrack state.
C24_BypassedNeverQueued ==
  [][\A w \in Workers :
       (pc[w] = "idle" /\ pc'[w] = "queued")
         => /\ ~mess'[w].ctbypass
            /\ ~bypassed(dict, mess'[w].ctid)]_vars

\* The first packet of a flow is queued under a ct id whose previous flow
\* had been released by all its plugins: the bypass entry has been flushed.
C24_Witness ==
  \E w \in Workers :
    /\ pc[w] = "queued"
    /\ mess[w].ctnew
    /\ dict[mess[w].ctid] = <<>>
    /\ sessionTable[mess[w].ctid] # 0
    /\ sessions[sessionTable[mess[w].ctid]].subscriptions = {}

\* C25: no packet of a locally generated flow and no packet of a flow to the
\* host itself, DNS to port 53 apart, is queued to the dispatcher: a queued
\* packet of a flow whose first packet came from the host or went to the host
\* belongs to an inbound DNS flow.
C25_LocalFlowsInvisible ==
  [][\A w \in Workers :
       (pc[w] = "idle" /\ pc'[w] = "queued")
         => /\ kct'[mess'[w].ctid].orig.src \notin LocalAddrs
            /\ kct'[mess'[w].ctid].orig.dst \in LocalAddrs
                 => kct'[mess'[w].ctid].orig.dport = 53]_vars

\* C26: a packet queued in ct state new carries mark bit 0x10000000 and finds
\* sessions[ct id] flushed; a packet queued in another state does not get the
\* bit from the ruleset; and a packet that is not in state new, queued or
\* not, leaves the dictionary as it was.
C26_NewFlowMarkAndFlush ==
  [][/\ \A w \in Workers :
          (pc[w] = "idle" /\ pc'[w] = "queued")
            => /\ mess'[w].ctnew
                    => /\ (mess'[w].pmark.hi \div 4096) % 2 = 1
                       /\ dict'[mess'[w].ctid] = <<>>
               /\ ~mess'[w].ctnew => (mess'[w].pmark.hi \div 4096) % 2 = 0
     /\ (/\ events' = events + 1
         /\ \A c \in Ctids : kct[c].state = "none" => kct'[c].state = "none")
          => dict' = dict]_vars

\* A later packet of a flow is queued without the bit and with the entry the
\* geoip plugin wrote for the first packet still in the dictionary.
C26_Witness ==
  \E w \in Workers :
    /\ pc[w] = "queued"
    /\ ~mess[w].ctnew
    /\ ~newSessionBit(mess[w].pmark)
    /\ "client_country" \in DOMAIN dict[mess[w].ctid]
    /\ sessionTable[mess[w].ctid] # 0

C23_NoEvictionUnderPacket ==
  [][\A c \in Ctids :
       (sessionTable[c] # 0 /\ Reap(c))
         => /\ stale[sessionTable[c]]
            /\ \A w \in Workers :
                 pc[w] \in {"looked", "collect", "returned"}
                   => sess[w] # sessionTable[c]]_vars

C29_ServerInterfaceOnce ==
  [][\A w \in Workers :
       (/\ callbackStep(w)
        /\ crashed' = "no"
        /\ path'[w] \in {"created", "reuse", "existing", "remark"})
         => LET m == mess[w]
                sid == sess'[w]
                fresh == path'[w] \in {"created", "reuse"}
                client == IF fresh THEN m.src
                          ELSE sessions[sid].clientSideTuple.ClientAddress
                id == IF fresh THEN 0 ELSE sessions[sid].serverInterfaceID
                type == IF fresh THEN 0 ELSE sessions[sid].serverInterfaceType
            IN IF ~IPEqual(Octets(m.src), Octets(client)) /\ id = 0
               THEN /\ sessions'[sid].serverInterfaceID = m.pmark.lo % 256
                    /\ sessions'[sid].serverInterfaceType
                         = (m.pmark.hi \div 256) % 4
               ELSE /\ sessions'[sid].serverInterfaceID = id
                    /\ sessions'[sid].serverInterfaceType = type]_vars

\* The first reply packet of the established flow, whose server interface
\* was not known yet, has set it from its mark.
C29_Witness ==
  \E w \in Workers :
    /\ pc[w] \in {"collect", "returned"}
    /\ path[w] = "existing"
    /\ events = 1
    /\ sess[w] = 1
    /\ mess[w].src # sessions[1].clientSideTuple.ClientAddress
    /\ sessions[1].serverInterfaceID = interfaceID(mess[w].pmark)
    /\ sessions[1].serverInterfaceType = interfaceType(mess[w].pmark)
    /\ sessions[1].serverInterfaceID # 0
    /\ sessions[1].serverInterfaceType # 0

\* C30: for a packet whose session has subscriptions, callSubscribers aborts
\* on the priority constraint only if some subscription's priority is outside
\* 0..99, and returns only if all are inside, with NfAccept; when it aborts,
\* the handlers registered with priorities 0..100 have been called and their
\* results read, the one at priority 100 included.
C30_PrioritiesInRange ==
  [][/\ (crashed = "no" /\ crashed' = "priority_constraint")
          => \E w \in Workers :
               \/ /\ pc[w] = "collect"
                  /\ \E s \in sublist[w] : s.Priority \notin 0..99
                  /\ \A s \in sublist[w] :
                       s.Priority \in 0..100 => task[w][s.Owner] = "delivered"
               \/ /\ pc[w] = "queued"
                  /\ \A s \in sessions[sessionTable[mess[w].ctid]].subscriptions :
                       s.Priority \notin 0..100
     /\ \A w \in Workers :
          (pc[w] = "collect" /\ pc'[w] = "returned")
            => /\ \A s \in sublist[w] : s.Priority \in 0..99
               /\ \A s \in sublist[w] : task[w][s.Owner] = "delivered"
               /\ verdict'[w] = <<NfAccept>>
     /\ \A w \in Workers :
          (/\ pc[w] = "collect"
           /\ nread[w] = hitcount[w]
           /\ \A s \in sublist[w] : s.Priority \in 0..99
           /\ \A s \in sublist[w] : task[w][s.Owner] = "delivered"
           /\ pc'[w] # "collect")
            => pc'[w] = "returned" /\ crashed' = "no"]_vars

\* The loop has returned for a snapshot with one plugin at priority 0 and one
\* at priority 99.
C30_Witness ==
  \E w \in Workers :
    /\ pc[w] = "returned"
    /\ verdict[w] = <<NfAccept>>
    /\ {s.Priority : s \in sublist[w]} = {0, MaxPriority - 1}
    /\ \A s \in sublist[w] : task[w][s.Owner] = "delivered"

\* C31: when callSubscribers returns, the handler of every subscription in
\* the snapshot has been called and its result read, and no result is left
\* unread; a handler is started only for a subscription of the snapshot and
\* only once for the packet, whatever is released meanwhile, and a result is
\* read only from a handler that has returned.
C31_OneCallOneResult ==
  [][\A w \in Workers :
       /\ (pc[w] = "collect" /\ pc'[w] = "returned")
            => /\ \A o \in Owners :
                    IF o \in {s.Owner : s \in sublist[w]}
                    THEN task[w][o] = "delivered"
                    ELSE task[w][o] = "none"
               /\ subcount[w] = Cardinality(sublist[w])
               /\ nread[w] = hitcount[w]
       /\ \A o \in Owners :
            /\ (task'[w][o] = "spawned" /\ task[w][o] # "spawned")
                 => /\ task[w][o] = "none"
                    /\ o \in {s.Owner : s \in sublist'[w]}
            /\ (task'[w][o] = "running" /\ task[w][o] # "running")
                 => task[w][o] = "spawned"
            /\ (task'[w][o] = "delivered" /\ task[w][o] # "delivered")
                 => /\ task[w][o] \in {"returnedT", "returnedF"}
                    /\ nread'[w] = nread[w] + 1]_vars

\* A packet whose snapshot held all three plugins has been through both
\* tiers; geoip released itself during the packet, and each handler's
\* result has been read.
C31_Witness ==
  \E w \in Workers :
    /\ pc[w] = "returned"
    /\ {s.Owner : s \in sublist[w]} = Owners
    /\ \A o \in Owners : task[w][o] = "delivered"
    /\ pluginName \notin {s.Owner : s \in sessions[sess[w]].subscriptions}
    /\ verdict[w] = <<NfAccept>>

\* C32: no step writes bypass_packetd = true under a ctid whose session
\* table entry is a session that still has subscribers; in particular a
\* release on a session that is no longer the entry of its ctid writes
\* nothing for the flow that now owns the ctid.
C32_StaleReleaseWritesNothing ==
  [][\A c \in Ctids :
       (~bypassed(dict, c) /\ bypassed(dict', c) /\ sessionTable'[c] # 0)
         => sessions'[sessionTable'[c]].subscriptions = {}]_vars

\* C33: for every session and owner, in every reachable state: a second
\* ReleaseSession for the same owner changes nothing after the first; for an
\* owner that is not subscribed, and for a session without subscriptions,
\* the call changes neither the subscriptions nor the dictionary; and the
\* call removes no subscription but the owner's.
C33_ReleaseIdempotent ==
  \A sid \in 1..Len(sessions), o \in Owners \cup {"stranger"} :
    LET subs == sessions[sid].subscriptions
        once == ReleaseSession(sessions, dict, sid, o)
        twice == ReleaseSession(once.sessions, once.dict, sid, o)
    IN /\ twice = once
       /\ (subs = {} \/ o \notin {s.Owner : s \in subs})
            => once.sessions = sessions /\ once.dict = dict
       /\ once.sessions[sid].subscriptions = {s \in subs : s.Owner # o}
       /\ \A other \in 1..Len(sessions) :
            other # sid => once.sessions[other] = sessions[other]

\* A session whose subscriptions were all released and whose dictionary
\* entry has gone since, next to the calls that emptied it: another release
\* on it must write nothing.
C33_Witness ==
  \E sid \in 1..Len(sessions) :
    /\ sessions[sid].subscriptions = {}
    /\ released[sid] # {}
    /\ ~bypassed(dict, sessions[sid].conntrackID)

\* C34: a call of the geoip handler leaves geoip out of the subscriptions of
\* the message's session; geoip never comes back into a session's
\* subscriptions; a packet dispatched for a session without the geoip
\* subscription gets a snapshot without geoip and its geoip handler is never
\* started; and the geoip handler never returns session_release = true.
C34_GeoipFirstPacketOnly ==
  [][\A w \in Workers :
       /\ (task[w][pluginName] = "spawned" /\ task'[w][pluginName] = "running")
            => /\ pluginName \in
                    {s.Owner : s \in sessions[sess[w]].subscriptions}
               /\ pluginName \notin
                    {s.Owner : s \in sessions'[sess[w]].subscriptions}
       /\ \A sid \in 1..Len(sessions) :
            (/\ sid <= Len(sessions')
             /\ pluginName \notin {s.Owner : s \in sessions[sid].subscriptions})
              => pluginName \notin {s.Owner : s \in sessions'[sid].subscriptions}
       /\ (/\ callbackStep(w)
           /\ crashed' = "no"
           /\ sess'[w] \in 1..Len(sessions)
           /\ pluginName \notin
                {s.Owner : s \in sessions[sess'[w]].subscriptions})
            => /\ pluginName \notin {s.Owner : s \in sublist'[w]}
               /\ task'[w][pluginName] = "none"
       /\ (pluginName \notin {s.Owner : s \in sublist'[w]} /\ crashed' = "no")
            => task'[w][pluginName] = "none"
       /\ task'[w][pluginName] # "returnedT"]_vars

\* The second packet of a session is with the plugins that stayed
\* subscribed; geoip, which ran for the first, has not been started.
C34_Witness ==
  \E w \in Workers :
    /\ pc[w] = "collect"
    /\ dispatched[sess[w]] = 2
    /\ sublist[w] # {}
    /\ pluginName \notin {s.Owner : s \in sublist[w]}
    /\ task[w][pluginName] = "none"
    /\ "client_country" \in DOMAIN dict[mess[w].ctid]

\* C35: a geoip handler called with newSession false returns after the
\* release without touching client_country or server_country in the dictionary
\* or any attachment; only a handler called with newSession true goes on, and
\* its lookup step leaves both countries in sessions[ctid] and in the session's
\* attachments: "XL" for 10.0.0.5, 172.16.0.9, fe80::1 and fd00::1, "US" for
\* 93.184.216.34 when there is a database, "XU" for that address without
\* database and for the addresses the database has no country for.
C35_GeoipLookup ==
  [][\A w \in Workers :
       LET expected(a) ==
             IF a \in {"10.0.0.5", "172.16.0.9", "fe80::1", "fd00::1"} THEN "XL"
             ELSE IF geoDatabase # "nil" /\ a = "93.184.216.34" THEN "US"
             ELSE "XU"
           countries == {"client_country", "server_country"}
       IN /\ (task[w][pluginName] = "spawned" /\ task'[w][pluginName] # "spawned"
              /\ ~newFlag[w] /\ crashed' = "no")
               => /\ task'[w][pluginName] = "returnedF"
                  /\ \A c \in Ctids, f \in countries :
                       /\ (f \in DOMAIN dict'[c]) = (f \in DOMAIN dict[c])
                       /\ f \in DOMAIN dict[c] => dict'[c][f] = dict[c][f]
                  /\ \A sid \in 1..Len(sessions) :
                       sessions'[sid].attachments = sessions[sid].attachments
          /\ task'[w][pluginName] \in {"entered", "locked", "looked"}
               => newFlag'[w]
          /\ (task[w][pluginName] = "locked" /\ task'[w][pluginName] = "looked")
               => /\ dict'[mess[w].ctid]["client_country"] = expected(mess[w].src)
                  /\ dict'[mess[w].ctid]["server_country"] = expected(mess[w].dst)
                  /\ sessions'[sess[w]].attachments["client_country"]
                       = expected(mess[w].src)
                  /\ sessions'[sess[w]].attachments["server_country"]
                       = expected(mess[w].dst)]_vars

\* One handler has looked up a flow from 10.0.0.5 to 93.184.216.34 without a
\* database, and a handler called for a packet of the same session that was
\* not new has returned.
C35_Witness ==
  \E w, v \in Workers :
    /\ task[w][pluginName] \in {"looked", "returnedF", "delivered"}
    /\ newFlag[w]
    /\ mess[w].dst = "93.184.216.34"
    /\ sessions[sess[w]].attachments =
         ("client_country" :> "XL") @@ ("server_country" :> "XU")
    /\ dict[mess[w].ctid]["server_country"] = "XU"
    /\ task[v][pluginName] \in {"returnedF", "delivered"}
    /\ ~newFlag[v]
    /\ sess[v] = sess[w]

\* C36: a geoip handler does its lookups holding geoMutex and never on a
\* database that PluginShutdown has closed; the database handle changes only
\* under the mutex, in PluginStartup or PluginShutdown; at most one handler is
\* between Lock and Unlock at a time, and none while PluginStartup or
\* PluginShutdown is.
C36_GeoMutex ==
  /\ [][/\ \A w \in Workers :
             (task[w][pluginName] = "locked" /\ task'[w][pluginName] = "looked")
               => geoMutex = <<w>> /\ geoDatabase \in {"nil", "open"}
        /\ geoDatabase' # geoDatabase
             => /\ geoMutex \in {<<"startup">>, <<"shutdown">>}
                /\ \A w \in Workers :
                     task[w][pluginName] \notin {"locked", "looked"}]_vars
  /\ [](/\ \A w, v \in Workers :
             (/\ task[w][pluginName] \in {"locked", "looked"}
              /\ task[v][pluginName] \in {"locked", "looked"}) => w = v
        /\ \A w \in Workers :
             task[w][pluginName] \in {"locked", "looked"}
               => geoControl \in {"up", "down"} /\ geoMutex = <<w>>)

\* After a shutdown, one handler holds the mutex with the handle nil while
\* another waits for it.
C36_Witness ==
  \E w, v \in Workers :
    /\ task[w][pluginName] = "locked"
    /\ task[v][pluginName] = "entered"
    /\ geoMutex = <<w>>
    /\ geoControl = "down"
    /\ geoDatabase = "nil"

\* C40: FindLogLevelName is total over the 32-bit integers: for every level
\* it returns a string without failing, "UNDEFINED" for a negative level,
\* the level's name for the defined levels 0..8, and the decimal rendering
\* of the number for every level from 9 up; and for every defined level l,
\* FindLogLevelValue(FindLogLevelName(l)) = l.
C40_FindLogLevelNameTotal ==
  /\ logCall.op = "FindLogLevelName" =>
       LET level == logCall.level[1] IN
         /\ ~logCall.result.panic
         /\ level < 0 => logCall.result.value = UNDEFINED_
         /\ level \in 0..8 => logCall.result.value = logLevelName[level + 1]
         /\ level >= 9 => logCall.result.value = decimal(level)
  /\ (logCall.op = "FindLogLevelValue" /\ logCall.level # <<>>
        /\ logCall.level[1] \in 0..8) =>
       logCall.result.value = logCall.level[1]

\* C38: IsLogEnabled(level) is true exactly when LogMessage called at the
\* same level from the same package and function would not be suppressed:
\* for every configuration and level, IsLogEnabled(level) =
\* (level <= GetLogLevel(package, function)).
C38_IsLogEnabledMatchesLogMessage ==
  [][\A level \in CallLevels :
       IsLogEnabledCall(level) =>
         (logCall'.result.value
            = ~suppressed(logLevelMap, levelCells, level))]_vars

\* What every return of AdjustSourceLogLevel(source, level) does: with no
\* concurrent adjust of the same source it returns the level the source
\* had before the call, a negative value if the source did not exist, and
\* SearchSourceLogLevel(source) is level afterwards; and the level of every
\* other source is unchanged.
adjustReturns ==
  \A w \in Workers :
    AdjustStore(w) =>
      LET t == logThread[w] IN
        /\ t.alone => logCall'.result.value = t.before
        /\ (t.alone /\ ~t.stat) => logCall'.result.value < 0
        /\ t.alone =>
             SearchSourceLogLevel(logLevelMap', levelCells', t.source)
               = t.level
        /\ \A s \in Sources \ {t.source} :
             SearchSourceLogLevel(logLevelMap', levelCells', s)
               = SearchSourceLogLevel(logLevelMap, levelCells, s)

multiple(k, limit) ==
  limit # 0 /\ k % (IF limit < 0 THEN 0 - limit ELSE limit) = 0

\* What LogFormatter returns for a call that is no counted message with
\* valid arguments: an error text, which names the format.
errorText(format, args) ==
  IF Len(args) < 2 THEN MissingArguments \o format
  ELSE IF args[1].type # "string" THEN NotString \o format
  ELSE NotInt \o format

\* The text of a counted message: what follows the verb, formatted with
\* the arguments after the limit.
messageText(format, args) ==
  IF Len(args) = 2 THEN afterVerb(format)
  ELSE Sprintf(afterVerb(format), SubSeq(args, 3, Len(args)))

\* This step is the call of LogFormatter that logCall' describes.
formatterStep ==
  /\ logCall'.op = "LogFormatter"
  /\ LogFormatterCall(logCall'.name[1], logCall'.name[2])

\* This step is the call of LogMessage that logCall' describes, at a level
\* that is not suppressed.
messageStep ==
  /\ logCall'.op = "LogMessage"
  /\ logCall'.level = <<LogLevelErr>>
  /\ LogMessageCall(LogLevelErr, logCall'.name[1], logCall'.name[2])

\* A call with the prefix "%OC|", through LogFormatter or LogMessage: with
\* valid arguments it adds one to the named counter and to no other; with
\* invalid arguments LogFormatter returns an error text and leaves the
\* counters alone; LogMessage prints nothing exactly when LogFormatter
\* returns the empty string.
countedCalls ==
  LET format == logCall'.name[1]
      args == logCall'.name[2]
  IN  /\ (formatterStep /\ counted(format, args)) =>
           counters' = [counters EXCEPT ![args[1].val] = @ + 1]
      /\ (formatterStep /\ HasPrefix(format, OCVerb)
            /\ ~counted(format, args)) =>
           /\ counters' = counters
           /\ logCall'.result.value = errorText(format, args)
      /\ (messageStep /\ counted(format, args)) =>
           /\ counters' = [counters EXCEPT ![args[1].val] = @ + 1]
           /\ (logCall'.result.value = <<>>)
                <=> (LogFormatter(counters, format, args).text = <<>>)

\* C37, as the code has it: a LogFormatter call with the prefix "%OC|", a
\* string name and an int limit adds exactly 1 to the named counter, and
\* the call whose total afterwards is k returns the text after the prefix,
\* formatted with the remaining arguments, if k = 1, or limit = 0, or limit
\* is positive and k is a multiple of it; otherwise it returns the empty
\* string and LogMessage prints nothing.  With fewer than two arguments, a
\* name that is no string or a limit that is no int it returns an error
\* text and adds to no counter.
C37_CountedMessages ==
  [][/\ countedCalls
     /\ (formatterStep /\ counted(logCall'.name[1], logCall'.name[2])) =>
          LET args == logCall'.name[2]
              k == counters'[args[1].val]
              limit == args[2].val
          IN  logCall'.result.value =
                IF k = 1 \/ limit = 0 \/ (limit > 0 /\ multiple(k, limit))
                THEN messageText(logCall'.name[1], args)
                ELSE <<>>]_vars

\* C37, as stated: the same, with a message that is not empty if and only
\* if k = 1, or limit = 0, or k is a multiple of limit.
C37_NonEmptyIffDue ==
  [][/\ countedCalls
     /\ (formatterStep /\ counted(logCall'.name[1], logCall'.name[2])) =>
          LET args == logCall'.name[2]
              k == counters'[args[1].val]
              limit == args[2].val
          IN  (logCall'.result.value # <<>>)
                <=> (k = 1 \/ limit = 0 \/ multiple(k, limit))]_vars

\* LogMessage at ERROR has just dropped the second message of a counter
\* with limit 3: the counter stands at 2 and nothing was printed.
C37_Witness ==
  /\ logCall.op = "LogMessage"
  /\ logCall.level = <<LogLevelErr>>
  /\ logCall.name =
       <<OCVerb \o Late, <<GoString("nfqueue_plugin_timeout"), GoInt(3)>>>>
  /\ counters["nfqueue_plugin_timeout"] = 2
  /\ logCall.result.value = <<>>

\* The state EstablishedInit starts from, as the dispatcher reaches it from
\* startup with one packet and one conntrack NEW event.
EstablishedReached ==
  \E subs \in SUBSET {r \in Registry : r.Owner # pluginName} :
    /\ sessionTable = [c \in Ctids |-> IF c = 1 THEN 1 ELSE 0]
    /\ sessions = <<EstablishedSession(subs)>>
    /\ conntrackTable[1] =
         [present |-> TRUE, tuple |-> MsgTuple(ShapeA), session |-> 1]
    /\ dict[1] = EstablishedEntry(subs)
    /\ \A w \in Workers : pc[w] = "idle"
    /\ dispatched = <<1>>
    /\ released = <<{"dns"} \ {s.Owner : s \in subs}>>
    /\ barred = [w \in Workers |-> {}]
    /\ kct = [c \in Ctids |-> NoKct]
    /\ stale = <<FALSE>>
    /\ bypassFlag = FALSE
    /\ geoDatabase = "open"
    /\ geoMutex = <<>>
    /\ geoControl = "up"
    /\ request = NoRequest

====
